---------------------------- MODULE Spec2Model ----------------------------
(***************************************************************************)
(* Model of the PR migration validator: the diff rule engine of            *)
(* src/app/api/validate/stream/route.ts (streaming engine) and of the      *)
(* prValidator module (non-streaming engine), the two delivery paths       *)
(* that call them (processPrValidation and validatePr), and the stream     *)
(* reader of the client (handleStreamValidation).                          *)
(*                                                                         *)
(* Text is modelled character by character: a string is a sequence of      *)
(* one-character strings, a patch is the sequence of its lines (the result *)
(* of patch.split('\n')), and the String and RegExp operations the code    *)
(* uses are operators over such sequences.                                 *)
(***************************************************************************)
EXTENDS Integers, Sequences, FiniteSets, TLC

VARIABLES
    file,           \* engine run: the FileDiff handed to validateFileContent
    streamResult,   \* engine run: what the streaming engine returned
    syncResult,     \* engine run: what the prValidator engine returned
    prLink,         \* delivery: the PR link of the request
    prFiles,        \* delivery: the files pulls.listFiles answers with
    streamPc,       \* processPrValidation: position in the handler
    fileIdx,        \* processPrValidation: index of the next file of the loop
    allIssues,      \* processPrValidation: the local allIssues
    checkedFiles,   \* processPrValidation: the local checkedFiles
    written,        \* the events written to the stream writer, in order
    writerClosed,   \* writer.close() has been called
    syncPc,         \* validatePr: position in the handler
    syncResponse,   \* validatePr: the result returned or the error thrown
    fetchCalls,     \* the calls made to octokit.rest.pulls, in order
    clientGone,     \* the client has cancelled the readable side of the stream
    failedWrites,   \* how many of the last events of written the closed stream rejected
    wire,           \* client: the characters the response body carries
    delivered,      \* client: how many of them reader.read() has handed over
    buffer,         \* handleStreamValidation: the local buffer
    processed,      \* the events handed to processStreamEvent, in order
    readerPc        \* handleStreamValidation: position in the handler

vars == <<file, streamResult, syncResult, prLink, prFiles, streamPc, fileIdx,
          allIssues, checkedFiles, written, writerClosed, syncPc, syncResponse,
          fetchCalls, clientGone, failedWrites, wire, delivered, buffer,
          processed, readerPc>>

engineVars == <<file, streamResult, syncResult>>
streamVars == <<streamPc, fileIdx, allIssues, checkedFiles, written, writerClosed>>
syncVars == <<syncPc, syncResponse>>
requestVars == <<prLink, prFiles>>
readerVars == <<wire, delivered, buffer, processed, readerPc>>
transportVars == <<fetchCalls, clientGone, failedWrites>>

-----------------------------------------------------------------------------
(* Character classes of the regular expressions.                           *)

LowerChars == {"a","b","c","d","e","f","g","h","i","j","k","l","m",
               "n","o","p","q","r","s","t","u","v","w","x","y","z"}
UpperChars == {"A","B","C","D","E","F","G","H","I","J","K","L","M",
               "N","O","P","Q","R","S","T","U","V","W","X","Y","Z"}
DigitChars == {"0","1","2","3","4","5","6","7","8","9"}
\* \w
WordChars == LowerChars \cup UpperChars \cup DigitChars \cup {"_"}
\* \s, and what String.prototype.trim strips
SpaceChars == {" ", "\t", "\r"}
\* [A-Za-z0-9_<>]
TypeChars == WordChars \cup {"<", ">"}

-----------------------------------------------------------------------------
(* String operations.                                                      *)

\* s.substring(p - 1, p - 1 + Len(n)) = n, for a 1-based position p
matchAt(s, p, n) ==
    /\ p >= 1
    /\ p + Len(n) - 1 <= Len(s)
    /\ \A k \in 1..Len(n) : s[p + k - 1] = n[k]

startsWith(s, p) == matchAt(s, 1, p)

endsWith(s, p) == Len(s) >= Len(p) /\ matchAt(s, Len(s) - Len(p) + 1, p)

includes(s, n) == \E p \in 1..(Len(s) - Len(n) + 1) : matchAt(s, p, n)

\* line.substring(1)
substring1(s) == SubSeq(s, 2, Len(s))

RECURSIVE skipWhile(_, _, _)
\* the first position >= p of s that holds no character of class (Len(s) + 1 if none)
skipWhile(s, p, class) ==
    IF p <= Len(s) /\ s[p] \in class THEN skipWhile(s, p + 1, class) ELSE p

RECURSIVE skipBack(_, _, _)
\* the last position <= p of s that holds no character of class (0 if none)
skipBack(s, p, class) ==
    IF p >= 1 /\ s[p] \in class THEN skipBack(s, p - 1, class) ELSE p

trim(s) == SubSeq(s, skipWhile(s, 1, SpaceChars), skipBack(s, Len(s), SpaceChars))

\* \b in front of a word character at position p
wordBoundaryBefore(s, p) == p = 1 \/ s[p - 1] \notin WordChars

RECURSIVE countChar(_, _)
countChar(s, c) ==
    IF s = <<>> THEN 0 ELSE (IF Head(s) = c THEN 1 ELSE 0) + countChar(Tail(s), c)

RECURSIVE Flatten(_)
\* the concatenation of a sequence of sequences
Flatten(ss) == IF ss = <<>> THEN <<>> ELSE Head(ss) \o Flatten(Tail(ss))

DigitSeq == <<"0","1","2","3","4","5","6","7","8","9">>
digitValue(c) == (CHOOSE i \in 1..10 : DigitSeq[i] = c) - 1

RECURSIVE parseIntFrom(_, _)
\* parseInt(s, 10) of a string of decimal digits, acc the value read so far
parseIntFrom(s, acc) ==
    IF s = <<>> THEN acc ELSE parseIntFrom(Tail(s), 10 * acc + digitValue(Head(s)))

parseInt(s) == parseIntFrom(s, 0)

-----------------------------------------------------------------------------
(* String literals of the source.                                          *)

K_plus == <<"+">>
K_plus3 == <<"+","+","+">>
K_minus == <<"-">>
K_minus3 == <<"-","-","-">>
K_hunkMark == <<"@","@">>
K_import == <<"i","m","p","o","r","t">>
K_Assertions == <<"A","s","s","e","r","t","i","o","n","s">>
K_framework == <<"/","f","r","a","m","e","w","o","r","k">>
K_dotTs == <<".","t","s">>
K_gestures == <<"g","e","s","t","u","r","e","s">>
K_withFixtures == <<"w","i","t","h","F","i","x","t","u","r","e","s">>
K_frameworkFixtures == <<"/","f","r","a","m","e","w","o","r","k","/","f","i","x","t","u","r","e","s">>
K_Matchers == <<"M","a","t","c","h","e","r","s">>
K_get == <<"g","e","t">>
K_it == <<"i","t">>
K_PromiseOpen == <<"P","r","o","m","i","s","e","<">>
K_e2eDir == <<"e","2","e","/">>
K_specTs == <<".","s","p","e","c",".","t","s">>
K_withFixturesParen == <<"w","i","t","h","F","i","x","t","u","r","e","s","(">>
K_withFixturesDot == <<"w","i","t","h","F","i","x","t","u","r","e","s",".">>
K_withFixturesSpParen == <<"w","i","t","h","F","i","x","t","u","r","e","s"," ","(">>
K_protoGet == <<".","p","r","o","t","o","t","y","p","e",".","g","e","t">>
K_protoIdxGet == <<"[","'","p","r","o","t","o","t","y","p","e","'","]","[","'","g","e","t">>
K_dotGet == <<".","g","e","t">>
K_idxGetS == <<"[","'","g","e","t">>
K_idxGetD == <<"[","\"","g","e","t">>
K_hunkOpen == <<"@","@"," ","-">>
K_hunkMid == <<" ","+">>
K_hunkClose == <<" ","@","@">>

T_DetoxElement == <<"D","e","t","o","x","E","l","e","m","e","n","t">>
T_TappableElement == <<"T","a","p","p","a","b","l","e","E","l","e","m","e","n","t">>
T_TypableElement == <<"T","y","p","a","b","l","e","E","l","e","m","e","n","t">>
T_WebElement == <<"W","e","b","E","l","e","m","e","n","t">>
T_IndexableNativeElement == <<"I","n","d","e","x","a","b","l","e","N","a","t","i","v","e","E","l","e","m","e","n","t">>
T_NativeElement == <<"N","a","t","i","v","e","E","l","e","m","e","n","t">>
T_SystemElement == <<"S","y","s","t","e","m","E","l","e","m","e","n","t">>
T_DeviceLaunchAppConfig == <<"D","e","v","i","c","e","L","a","u","n","c","h","A","p","p","C","o","n","f","i","g">>
T_DetoxMatcher == <<"D","e","t","o","x","M","a","t","c","h","e","r">>

\* Valid types that should precede getter methods
VALID_GETTER_TYPES ==
    << T_DetoxElement, T_TappableElement, T_TypableElement, T_WebElement,
       T_IndexableNativeElement, T_NativeElement, T_SystemElement,
       T_DeviceLaunchAppConfig, T_DetoxMatcher >>

K_FixtureBuilder == <<"F","i","x","t","u","r","e","B","u","i","l","d","e","r">>
K_FixtureHelper == <<"F","i","x","t","u","r","e","H","e","l","p","e","r">>
K_FixtureUtils == <<"F","i","x","t","u","r","e","U","t","i","l","s">>

\* Fixture-related imports that must come from /framework
FIXTURE_IMPORTS == << K_FixtureBuilder, K_FixtureHelper, K_FixtureUtils >>

\* Array.prototype.includes on an array of strings
arrayIncludes(arr, s) == \E i \in 1..Len(arr) : arr[i] = s

\* the 'N/A' sentinel and a numeric line value of an issue
NA == [kind |-> "N/A"]
Num(n) == [kind |-> "number", value |-> n]

Issue(filename, line, cleanLine, checkType) ==
    [file |-> filename, line |-> line, importStatement |-> cleanLine,
     checkType |-> checkType]

-----------------------------------------------------------------------------
(* Regular expressions. Every quantified class is followed by an element   *)
(* disjoint from it, so the greedy match is the only one and the matcher   *)
(* needs no backtracking; an unanchored expression matches at the leftmost *)
(* position that admits a match.                                           *)

\* /\bget\s+\w+\s*\(/ matched at position p: 0, or the position of the "("
getterHeadAt(s, p) ==
    IF ~(matchAt(s, p, K_get) /\ wordBoundaryBefore(s, p)) THEN 0
    ELSE LET a == p + Len(K_get)
             b == skipWhile(s, a, SpaceChars)
             c == skipWhile(s, b, WordChars)
             d == skipWhile(s, c, SpaceChars)
         IN IF b > a /\ c > b /\ d <= Len(s) /\ s[d] = "(" THEN d ELSE 0

\* getterMethodRegex.test(s)
getterMethodRegexTest(s) == \E p \in 1..Len(s) : getterHeadAt(s, p) > 0

\* /\bget\s+\w+\s*\(\s*\)\s*:\s*([A-Za-z0-9_<>]+)/ matched at position p:
\* <<>> when it does not match, else <<capture group 1>>
tsGetterAt(s, p) ==
    LET d == getterHeadAt(s, p)
    IN IF d = 0 THEN <<>>
       ELSE LET e == skipWhile(s, d + 1, SpaceChars)
                f == skipWhile(s, e + 1, SpaceChars)
                g == skipWhile(s, f + 1, SpaceChars)
                h == skipWhile(s, g, TypeChars)
            IN IF /\ e <= Len(s) /\ s[e] = ")"
                  /\ f <= Len(s) /\ s[f] = ":"
                  /\ h > g
               THEN << SubSeq(s, g, h - 1) >>
               ELSE <<>>

\* s.match(tsGetterRegex): <<>> for null, else <<match[1]>> of the leftmost match
tsGetterRegexMatch(s) ==
    LET ps == { p \in 1..Len(s) : tsGetterAt(s, p) # <<>> }
    IN IF ps = {} THEN <<>>
       ELSE tsGetterAt(s, CHOOSE p \in ps : \A q \in ps : p <= q)

\* typeName.match(/^Promise<([A-Za-z0-9_]+)>$/): <<>> for null, else <<match[1]>>
promiseRegexMatch(typeName) ==
    LET inner == SubSeq(typeName, Len(K_PromiseOpen) + 1, Len(typeName) - 1)
    IN IF /\ startsWith(typeName, K_PromiseOpen)
          /\ Len(typeName) >= Len(K_PromiseOpen) + 2
          /\ typeName[Len(typeName)] = ">"
          /\ \A i \in 1..Len(inner) : inner[i] \in WordChars
       THEN << inner >>
       ELSE <<>>

\* /\bit(\.|)(\w+|)\s*\(/.test(s)
testDeclRegexTest(s) ==
    \E p \in 1..Len(s) :
        /\ matchAt(s, p, K_it)
        /\ wordBoundaryBefore(s, p)
        /\ LET a == p + Len(K_it)
               b == IF a <= Len(s) /\ s[a] = "." THEN a + 1 ELSE a
               c == skipWhile(s, b, WordChars)
               d == skipWhile(s, c, SpaceChars)
           IN d <= Len(s) /\ s[d] = "("

\* /\bwithFixtures\s*\(/.test(s)
withFixturesCallRegexTest(s) ==
    \E p \in 1..Len(s) :
        /\ matchAt(s, p, K_withFixtures)
        /\ wordBoundaryBefore(s, p)
        /\ LET d == skipWhile(s, p + Len(K_withFixtures), SpaceChars)
           IN d <= Len(s) /\ s[d] = "("

\* /@@ -\d+,\d+ \+(\d+),\d+ @@/ matched at position p:
\* <<>> when it does not match, else <<capture group 1>>
hunkHeaderAt(s, p) ==
    IF ~matchAt(s, p, K_hunkOpen) THEN <<>>
    ELSE LET a == p + Len(K_hunkOpen)
             b == skipWhile(s, a, DigitChars)
             c == skipWhile(s, b + 1, DigitChars)
             d == c + Len(K_hunkMid)
             e == skipWhile(s, d, DigitChars)
             f == skipWhile(s, e + 1, DigitChars)
         IN IF /\ b > a /\ b <= Len(s) /\ s[b] = ","
               /\ c > b + 1
               /\ matchAt(s, c, K_hunkMid)
               /\ e > d /\ e <= Len(s) /\ s[e] = ","
               /\ f > e + 1
               /\ matchAt(s, f, K_hunkClose)
            THEN << SubSeq(s, d, e - 1) >>
            ELSE <<>>

\* hunkHeader.match(/@@ -\d+,\d+ \+(\d+),\d+ @@/)
hunkHeaderRegexMatch(s) ==
    LET ps == { p \in 1..Len(s) : hunkHeaderAt(s, p) # <<>> }
    IN IF ps = {} THEN <<>>
       ELSE hunkHeaderAt(s, CHOOSE p \in ps : \A q \in ps : p <= q)

-----------------------------------------------------------------------------
(* The engine: helpers shared by both copies.                              *)

\* line.startsWith('+') && !line.startsWith('+++')
isAddedLine(line) == startsWith(line, K_plus) /\ ~startsWith(line, K_plus3)

\* line.substring(1).trim()
cleanOf(line) == trim(substring1(line))

\* isValidGetterType without the Promise<ValidType> branch
isValidGetterType_directOnly(typeName) == arrayIncludes(VALID_GETTER_TYPES, typeName)

\* Check if a type is valid, either directly or as Promise<ValidType>
isValidGetterType(typeName) ==
    IF arrayIncludes(VALID_GETTER_TYPES, typeName) THEN TRUE
    ELSE LET match == promiseRegexMatch(typeName)
         IN match # <<>> /\ arrayIncludes(VALID_GETTER_TYPES, match[1])

RECURSIVE getOriginalLineNumberFrom_contextOnly(_, _, _, _, _)
\* the for loop of getOriginalLineNumber counting the context lines only
getOriginalLineNumberFrom_contextOnly(lines, addedLineIndex, i, originalLineIndex, addedLineCount) ==
    IF i > Len(lines) THEN NA
    ELSE IF isAddedLine(lines[i]) /\ addedLineCount = addedLineIndex
         THEN Num(originalLineIndex)
         ELSE getOriginalLineNumberFrom_contextOnly(lines, addedLineIndex, i + 1,
                 IF ~startsWith(lines[i], K_minus) /\ ~startsWith(lines[i], K_plus)
                    THEN originalLineIndex + 1 ELSE originalLineIndex,
                 IF isAddedLine(lines[i]) THEN addedLineCount + 1 ELSE addedLineCount)

RECURSIVE getOriginalLineNumberFrom(_, _, _, _, _)
\* the for loop of getOriginalLineNumber, at lines[i] (1-based)
getOriginalLineNumberFrom(lines, addedLineIndex, i, originalLineIndex, addedLineCount) ==
    IF i > Len(lines) THEN NA
    ELSE IF isAddedLine(lines[i]) /\ addedLineCount = addedLineIndex
         THEN Num(originalLineIndex)
         ELSE getOriginalLineNumberFrom(lines, addedLineIndex, i + 1,
                 IF ~startsWith(lines[i], K_minus) /\ ~startsWith(lines[i], K_minus3)
                    THEN originalLineIndex + 1 ELSE originalLineIndex,
                 IF isAddedLine(lines[i]) THEN addedLineCount + 1 ELSE addedLineCount)

\* getOriginalLineNumber(lines, addedLineIndex), addedLineIndex counted from 0.
\* The copy of the prValidator module is the same text.
getOriginalLineNumber(lines, addedLineIndex) ==
    getOriginalLineNumberFrom(lines, addedLineIndex, 1, 0, 0)

\* VALID_GETTER_TYPES.some(type => cleanLine.includes(`${type}.prototype.get`) || ...)
hasValidType(cleanLine) ==
    \E i \in 1..Len(VALID_GETTER_TYPES) :
        LET type == VALID_GETTER_TYPES[i]
        IN \/ includes(cleanLine, type \o K_protoGet)
           \/ includes(cleanLine, type \o K_protoIdxGet)
           \/ includes(cleanLine, type \o K_dotGet)
           \/ includes(cleanLine, type \o K_idxGetS)
           \/ includes(cleanLine, type \o K_idxGetD)

\* The getter-type check of an added line: TRUE when the issue is pushed
getterTypeFlagged(cleanLine) ==
    IF ~getterMethodRegexTest(cleanLine) THEN FALSE
    ELSE LET tsMatch == tsGetterRegexMatch(cleanLine)
         IN IF tsMatch # <<>> /\ isValidGetterType(tsMatch[1])
            THEN FALSE
            ELSE ~hasValidType(cleanLine)

\* One import rule: import of symbol whose line lacks the path fragment
importRuleFlagged(cleanLine, symbol, fragment) ==
    /\ includes(cleanLine, K_import)
    /\ includes(cleanLine, symbol)
    /\ ~includes(cleanLine, fragment)

\* assertionsTsFlagged written as the else branch of the /framework check
assertionsTsFlagged_elseBranch(cleanLine) ==
    /\ includes(cleanLine, K_import)
    /\ includes(cleanLine, K_Assertions)
    /\ includes(cleanLine, K_framework)
    /\ includes(cleanLine, K_dotTs)

\* Check for Assertions import with .ts extension
assertionsTsFlagged(cleanLine) ==
    /\ includes(cleanLine, K_import)
    /\ includes(cleanLine, K_Assertions)
    /\ includes(cleanLine, K_dotTs)

\* the issue pushed when flagged, as a sequence of zero or one issues
pushIf(flagged, filename, lines, index, cleanLine, checkType) ==
    IF flagged
    THEN << Issue(filename, getOriginalLineNumber(lines, index), cleanLine, checkType) >>
    ELSE <<>>

-----------------------------------------------------------------------------
(* Multi-line import scanner of the streaming engine.                      *)

RECURSIVE lookAhead_braceFirst(_, _)
\* a look-ahead loop that tests the closing brace before the path fragment
lookAhead_braceFirst(addedLines, j) ==
    IF j > Len(addedLines) THEN FALSE
    ELSE LET nextLine == cleanOf(addedLines[j])
         IN IF includes(nextLine, <<"}">>) THEN FALSE
            ELSE IF includes(nextLine, K_framework) THEN TRUE
            ELSE lookAhead_braceFirst(addedLines, j + 1)

RECURSIVE lookAhead(_, _)
\* the look-ahead loop from addedLines[j] (1-based): TRUE when '/framework'
\* is found before a line with a closing brace or the end of the added lines
lookAhead(addedLines, j) ==
    IF j > Len(addedLines) THEN FALSE
    ELSE LET nextLine == cleanOf(addedLines[j])
         IN IF includes(nextLine, K_framework) THEN TRUE
            ELSE IF includes(nextLine, <<"}">>) THEN FALSE
            ELSE lookAhead(addedLines, j + 1)

RECURSIVE lookBehind(_, _)
\* the look-behind loop from addedLines[j] (1-based) down to the first line
lookBehind(addedLines, j) ==
    IF j < 1 THEN FALSE
    ELSE LET prevLine == cleanOf(addedLines[j])
         IN IF includes(prevLine, K_import) /\ includes(prevLine, K_framework) THEN TRUE
            ELSE IF includes(prevLine, K_import) THEN FALSE
            ELSE lookBehind(addedLines, j - 1)

\* isMultilineImport and hasFrameworkPath for the added line at pos (1-based)
multilineScan(addedLines, pos) ==
    LET cleanLine == cleanOf(addedLines[pos])
        opens == includes(cleanLine, <<"{">>) /\ ~includes(cleanLine, <<"}">>)
        closes == includes(cleanLine, <<"}">>) /\ ~includes(cleanLine, K_import)
    IN [isMultilineImport |-> opens \/ closes,
        hasFrameworkPath |-> \/ (opens /\ lookAhead(addedLines, pos))
                             \/ (closes /\ lookBehind(addedLines, pos))]

RECURSIVE fixtureImportsFlagged(_, _, _)
\* the loop over FIXTURE_IMPORTS from its k-th element: TRUE when it pushes
\* the fixture-utils-framework issue (and breaks)
fixtureImportsFlagged(addedLines, pos, k) ==
    IF k > Len(FIXTURE_IMPORTS) THEN FALSE
    ELSE LET cleanLine == cleanOf(addedLines[pos])
             scan == multilineScan(addedLines, pos)
         IN IF /\ importRuleFlagged(cleanLine, FIXTURE_IMPORTS[k], K_framework)
               /\ (~scan.isMultilineImport
                     \/ (scan.isMultilineImport /\ ~scan.hasFrameworkPath))
            THEN TRUE
            ELSE fixtureImportsFlagged(addedLines, pos, k + 1)

-----------------------------------------------------------------------------
(* Test-block fixture scanner.                                             *)

\* the added lines that hold a test declaration, in patch order
testBlockLines(lines) ==
    SelectSeq(lines, LAMBDA line : isAddedLine(line) /\ testDeclRegexTest(cleanOf(line)))

\* lines.indexOf(testLine), as a 1-based position
indexOf(lines, testLine) ==
    CHOOSE i \in 1..Len(lines) :
        lines[i] = testLine /\ \A j \in 1..(i - 1) : lines[j] # testLine

\* net depth after the for loop over the characters of the test line
netDepth(s, open, close) == countChar(s, open) - countChar(s, close)

RECURSIVE parenLoop(_, _)
\* the character loop of the declaration scan: the depth after it and whether
\* the depth reached zero at a ")" (declarationEndFound)
parenLoop(s, parenDepth) ==
    IF s = <<>> THEN [depth |-> parenDepth, endFound |-> FALSE]
    ELSE IF Head(s) = "(" THEN parenLoop(Tail(s), parenDepth + 1)
    ELSE IF Head(s) = ")"
         THEN IF parenDepth - 1 = 0
              THEN [depth |-> 0, endFound |-> TRUE]
              ELSE parenLoop(Tail(s), parenDepth - 1)
    ELSE parenLoop(Tail(s), parenDepth)

RECURSIVE braceLoop(_, _)
\* the character loop of the body scan: the depth after it and whether the
\* depth went below zero at a "}" (blockEndFound)
braceLoop(s, blockDepth) ==
    IF s = <<>> THEN [depth |-> blockDepth, endFound |-> FALSE]
    ELSE IF Head(s) = "{" THEN braceLoop(Tail(s), blockDepth + 1)
    ELSE IF Head(s) = "}"
         THEN IF blockDepth - 1 < 0
              THEN [depth |-> blockDepth - 1, endFound |-> TRUE]
              ELSE braceLoop(Tail(s), blockDepth - 1)
    ELSE braceLoop(Tail(s), blockDepth)

RECURSIVE declarationScan(_, _, _)
\* the while loop that looks for the end of a multi-line declaration, with
\* tempLine the 1-based position of the line last looked at: TRUE when
\* withFixtures is found in the declaration
declarationScan(lines, tempLine, parenDepth) ==
    IF ~(tempLine < Len(lines) /\ parenDepth > 0) THEN FALSE
    ELSE LET nextLine == lines[tempLine + 1]
             cleanNextLine == cleanOf(nextLine)
             after == parenLoop(cleanNextLine, parenDepth)
         IN IF ~startsWith(nextLine, K_plus) /\ ~startsWith(nextLine, K_minus)
            THEN declarationScan(lines, tempLine + 1, parenDepth)
            ELSE IF includes(cleanNextLine, K_withFixtures) THEN TRUE
            ELSE IF after.endFound THEN FALSE
            ELSE declarationScan(lines, tempLine + 1, after.depth)

\* the withFixtures reference the body scan of the streaming engine looks for
hasWithFixturesCall(cleanNextLine) ==
    \/ includes(cleanNextLine, K_withFixturesParen)
    \/ includes(cleanNextLine, K_withFixturesDot)
    \/ includes(cleanNextLine, K_withFixturesSpParen)
    \/ withFixturesCallRegexTest(cleanNextLine)

RECURSIVE bodyScan_openEndPasses(_, _, _)
\* a body scan that takes a block still open at the end of the patch as one
\* that holds the fixture call
bodyScan_openEndPasses(lines, currentLine, blockDepth) ==
    IF ~(currentLine < Len(lines)) THEN TRUE
    ELSE LET nextLine == lines[currentLine + 1]
             cleanNextLine == IF startsWith(nextLine, K_plus)
                              THEN cleanOf(nextLine) ELSE trim(nextLine)
             after == braceLoop(cleanNextLine, blockDepth)
         IN IF startsWith(nextLine, K_minus)
            THEN bodyScan_openEndPasses(lines, currentLine + 1, blockDepth)
            ELSE IF hasWithFixturesCall(cleanNextLine) THEN TRUE
            ELSE IF after.endFound THEN FALSE
            ELSE bodyScan_openEndPasses(lines, currentLine + 1, after.depth)

RECURSIVE bodyScan(_, _, _)
\* the look-ahead while loop of the streaming engine, with currentLine the
\* 1-based position of the line last looked at: TRUE when withFixtures is found
bodyScan(lines, currentLine, blockDepth) ==
    IF ~(currentLine < Len(lines) /\ blockDepth >= 0) THEN FALSE
    ELSE LET nextLine == lines[currentLine + 1]
             cleanNextLine == IF startsWith(nextLine, K_plus)
                              THEN cleanOf(nextLine) ELSE trim(nextLine)
             after == braceLoop(cleanNextLine, blockDepth)
         IN IF startsWith(nextLine, K_minus)
            THEN bodyScan(lines, currentLine + 1, blockDepth)
            ELSE IF hasWithFixturesCall(cleanNextLine) THEN TRUE
            ELSE IF after.endFound THEN FALSE
            ELSE bodyScan(lines, currentLine + 1, after.depth)

RECURSIVE prValidator_bodyScan(_, _, _, _)
\* the look-ahead while loop of the prValidator engine: it looks at added
\* lines only and goes on after a match
prValidator_bodyScan(lines, currentLine, blockDepth, foundWithFixtures) ==
    IF ~(currentLine < Len(lines) /\ blockDepth >= 0) THEN foundWithFixtures
    ELSE LET nextLine == lines[currentLine + 1]
             cleanNextLine == cleanOf(nextLine)
             after == braceLoop(cleanNextLine, blockDepth)
             found == foundWithFixtures \/ includes(cleanNextLine, K_withFixtures)
         IN IF ~startsWith(nextLine, K_plus) \/ startsWith(nextLine, K_plus3)
            THEN prValidator_bodyScan(lines, currentLine + 1, blockDepth, foundWithFixtures)
            ELSE IF after.endFound THEN found
            ELSE prValidator_bodyScan(lines, currentLine + 1, after.depth, found)

RECURSIVE hunkHeaderIndexFrom(_, _)
\* the backward search for the hunk header from position i: 0 when none
hunkHeaderIndexFrom(lines, i) ==
    IF i < 1 THEN 0
    ELSE IF startsWith(lines[i], K_hunkMark) THEN i
    ELSE hunkHeaderIndexFrom(lines, i - 1)

\* a testLineNumber that reads match[1] without testing the match: on a
\* header the pattern does not match, match is null and the read throws
testLineNumber_unguardedMatch(lines, lineIndex) ==
    LET hunkHeaderIndex == hunkHeaderIndexFrom(lines, lineIndex)
    IN IF hunkHeaderIndex = 0 THEN NA
       ELSE LET match == hunkHeaderRegexMatch(lines[hunkHeaderIndex])
                linesAfterHunk ==
                    Cardinality({ i \in (hunkHeaderIndex + 1)..(lineIndex - 1) :
                                    ~startsWith(lines[i], K_minus) })
            IN IF match = <<>> THEN [kind |-> "TypeError"]
               ELSE Num(parseInt(match[1]) + linesAfterHunk - 1)

\* the line number of a test-withfixtures issue for the declaration at
\* position lineIndex (1-based)
testLineNumber(lines, lineIndex) ==
    LET hunkHeaderIndex == hunkHeaderIndexFrom(lines, lineIndex)
    IN IF hunkHeaderIndex = 0 THEN NA
       ELSE LET match == hunkHeaderRegexMatch(lines[hunkHeaderIndex])
                linesAfterHunk ==
                    Cardinality({ i \in (hunkHeaderIndex + 1)..(lineIndex - 1) :
                                    ~startsWith(lines[i], K_minus) })
            IN IF match = <<>> THEN NA
               ELSE Num(parseInt(match[1]) + linesAfterHunk - 1)

\* the body of testBlockLines.forEach in the streaming engine: TRUE when the
\* declaration is reported
testLineFlagged(lines, testLine) ==
    LET lineIndex == indexOf(lines, testLine)
        testLineClean == cleanOf(testLine)
        parenDepth == netDepth(testLineClean, "(", ")")
        blockDepth == netDepth(testLineClean, "{", "}")
    IN IF includes(testLineClean, K_withFixtures) THEN FALSE
       ELSE IF parenDepth > 0 /\ declarationScan(lines, lineIndex, parenDepth) THEN FALSE
       ELSE ~bodyScan(lines, lineIndex, blockDepth)

\* the body of testBlockLines.forEach in the prValidator engine
prValidator_testLineFlagged(lines, testLine) ==
    LET lineIndex == indexOf(lines, testLine)
        testLineClean == cleanOf(testLine)
        blockDepth == netDepth(testLineClean, "{", "}")
    IN ~prValidator_bodyScan(lines, lineIndex, blockDepth, FALSE)

\* testIssue with the raw patch line as snippet
testIssue_rawSnippet(filename, lines, testLine) ==
    Issue(filename, testLineNumber(lines, indexOf(lines, testLine)),
          testLine, "test-withfixtures")

\* the issue pushed for a reported declaration
testIssue(filename, lines, testLine) ==
    Issue(filename, testLineNumber(lines, indexOf(lines, testLine)),
          cleanOf(testLine), "test-withfixtures")

RECURSIVE validateTestFileFrom(_, _, _, _)
validateTestFileFrom(filename, lines, tests, k) ==
    IF k > Len(tests) THEN <<>>
    ELSE (IF testLineFlagged(lines, tests[k])
          THEN << testIssue(filename, lines, tests[k]) >> ELSE <<>>)
         \o validateTestFileFrom(filename, lines, tests, k + 1)

\* validateTestFile of the streaming engine: the issues it pushes
validateTestFile(filename, lines) ==
    validateTestFileFrom(filename, lines, testBlockLines(lines), 1)

RECURSIVE prValidator_validateTestFileFrom(_, _, _, _)
prValidator_validateTestFileFrom(filename, lines, tests, k) ==
    IF k > Len(tests) THEN <<>>
    ELSE (IF prValidator_testLineFlagged(lines, tests[k])
          THEN << testIssue(filename, lines, tests[k]) >> ELSE <<>>)
         \o prValidator_validateTestFileFrom(filename, lines, tests, k + 1)

\* validateTestFile of the prValidator engine: the issues it pushes
prValidator_validateTestFile(filename, lines) ==
    prValidator_validateTestFileFrom(filename, lines, testBlockLines(lines), 1)

-----------------------------------------------------------------------------
(* validateFileContent.                                                    *)

\* !file.patch: the patch is absent or the empty string
patchMissing(f) == ~f.hasPatch \/ f.patch = << <<>> >>

\* a callback that applies the three restricted-path import rules first,
\* then the extension rule, the fixtures rules and the getter rule
addedLineIssues_pathRulesFirst(filename, lines, addedLines, pos) ==
    LET cleanLine == cleanOf(addedLines[pos])
        index == pos - 1
    IN pushIf(importRuleFlagged(cleanLine, K_Assertions, K_framework),
              filename, lines, index, cleanLine, "assertions-framework")
       \o pushIf(importRuleFlagged(cleanLine, K_gestures, K_framework),
              filename, lines, index, cleanLine, "gestures-framework")
       \o pushIf(importRuleFlagged(cleanLine, K_Matchers, K_framework),
              filename, lines, index, cleanLine, "matchers-framework")
       \o pushIf(assertionsTsFlagged(cleanLine),
              filename, lines, index, cleanLine, "assertions-no-ts")
       \o pushIf(importRuleFlagged(cleanLine, K_withFixtures, K_frameworkFixtures),
              filename, lines, index, cleanLine, "fixtures-framework")
       \o pushIf(fixtureImportsFlagged(addedLines, pos, 1),
              filename, lines, index, cleanLine, "fixture-utils-framework")
       \o pushIf(getterTypeFlagged(cleanLine),
              filename, lines, index, cleanLine, "getter-type")

\* the callback of addedLines.forEach in the streaming engine, for the added
\* line at pos (1-based; index = pos - 1): the issues it pushes, in order
addedLineIssues(filename, lines, addedLines, pos) ==
    LET cleanLine == cleanOf(addedLines[pos])
        index == pos - 1
    IN pushIf(importRuleFlagged(cleanLine, K_Assertions, K_framework),
              filename, lines, index, cleanLine, "assertions-framework")
       \o pushIf(assertionsTsFlagged(cleanLine),
              filename, lines, index, cleanLine, "assertions-no-ts")
       \o pushIf(importRuleFlagged(cleanLine, K_gestures, K_framework),
              filename, lines, index, cleanLine, "gestures-framework")
       \o pushIf(importRuleFlagged(cleanLine, K_withFixtures, K_frameworkFixtures),
              filename, lines, index, cleanLine, "fixtures-framework")
       \o pushIf(importRuleFlagged(cleanLine, K_Matchers, K_framework),
              filename, lines, index, cleanLine, "matchers-framework")
       \o pushIf(fixtureImportsFlagged(addedLines, pos, 1),
              filename, lines, index, cleanLine, "fixture-utils-framework")
       \o pushIf(getterTypeFlagged(cleanLine),
              filename, lines, index, cleanLine, "getter-type")

\* the callback of addedLines.forEach in the prValidator engine
prValidator_addedLineIssues(filename, lines, addedLines, pos) ==
    LET cleanLine == cleanOf(addedLines[pos])
        index == pos - 1
    IN pushIf(importRuleFlagged(cleanLine, K_Assertions, K_framework),
              filename, lines, index, cleanLine, "assertions-framework")
       \o pushIf(assertionsTsFlagged(cleanLine),
              filename, lines, index, cleanLine, "assertions-no-ts")
       \o pushIf(importRuleFlagged(cleanLine, K_gestures, K_framework),
              filename, lines, index, cleanLine, "gestures-framework")
       \o pushIf(importRuleFlagged(cleanLine, K_withFixtures, K_frameworkFixtures),
              filename, lines, index, cleanLine, "fixtures-framework")
       \o pushIf(importRuleFlagged(cleanLine, K_Matchers, K_framework),
              filename, lines, index, cleanLine, "matchers-framework")
       \o pushIf(getterTypeFlagged(cleanLine),
              filename, lines, index, cleanLine, "getter-type")

\* the added lines of the patch, in order
addedLinesOf(lines) == SelectSeq(lines, isAddedLine)

\* a validateFileContent whose issues array outlives the call and keeps what
\* the calls before it pushed
validateFileContent_sharedIssues(f) ==
    allIssues
    \o (IF patchMissing(f) THEN <<>>
        ELSE IF ~startsWith(f.filename, K_e2eDir) THEN <<>>
        ELSE LET lines == f.patch
                 addedLines == addedLinesOf(lines)
             IN Flatten([pos \in 1..Len(addedLines) |->
                            addedLineIssues(f.filename, lines, addedLines, pos)])
                \o (IF endsWith(f.filename, K_specTs)
                    THEN validateTestFile(f.filename, lines) ELSE <<>>))

\* a validateFileContent without the filter on the e2e/ directory
validateFileContent_noPathFilter(f) ==
    IF patchMissing(f) THEN <<>>
    ELSE LET lines == f.patch
             addedLines == addedLinesOf(lines)
         IN Flatten([pos \in 1..Len(addedLines) |->
                        addedLineIssues(f.filename, lines, addedLines, pos)])
            \o (IF endsWith(f.filename, K_specTs)
                THEN validateTestFile(f.filename, lines) ELSE <<>>)

\* validateFileContent of stream/route.ts
validateFileContent(f) ==
    IF patchMissing(f) THEN <<>>
    ELSE IF ~startsWith(f.filename, K_e2eDir) THEN <<>>
    ELSE LET lines == f.patch
             addedLines == addedLinesOf(lines)
         IN Flatten([pos \in 1..Len(addedLines) |->
                        addedLineIssues(f.filename, lines, addedLines, pos)])
            \o (IF endsWith(f.filename, K_specTs)
                THEN validateTestFile(f.filename, lines) ELSE <<>>)

\* validateFileContent of the prValidator module
prValidator_validateFileContent(f) ==
    IF patchMissing(f) THEN <<>>
    ELSE LET lines == f.patch
             addedLines == addedLinesOf(lines)
         IN Flatten([pos \in 1..Len(addedLines) |->
                        prValidator_addedLineIssues(f.filename, lines, addedLines, pos)])
            \o (IF endsWith(f.filename, K_specTs)
                THEN prValidator_validateTestFile(f.filename, lines) ELSE <<>>)

-----------------------------------------------------------------------------
(* Engine runs: one FileDiff is handed to each copy of validateFileContent. *)

NotRun == [done |-> FALSE, issues |-> <<>>]
Returned(issues) == [done |-> TRUE, issues |-> issues]

NoFile == [filename |-> <<>>, hasPatch |-> FALSE, patch |-> <<>>]

\* the state of the client's stream reader when it reads no response
ReaderIdle ==
    /\ wire = <<>>
    /\ delivered = 0
    /\ buffer = <<>>
    /\ processed = <<>>
    /\ readerPc = "idle"

\* the state of the two request handlers when no request is being served
HandlersIdle ==
    /\ prLink = <<>>
    /\ prFiles = <<>>
    /\ streamPc = "idle"
    /\ fileIdx = 0
    /\ allIssues = <<>>
    /\ checkedFiles = <<>>
    /\ written = <<>>
    /\ writerClosed = FALSE
    /\ syncPc = "idle"
    /\ syncResponse = [status |-> 0]
    /\ fetchCalls = <<>>
    /\ clientGone = FALSE
    /\ failedWrites = 0
    /\ ReaderIdle

\* the sequences over set S of length lo..hi
SeqsOf(S, lo, hi) == UNION { [1..n -> S] : n \in lo..hi }

\* a call of validateFileContent of stream/route.ts on file
RunStreamEngine ==
    /\ file # NoFile
    /\ ~streamResult.done
    /\ streamResult' = Returned(validateFileContent(file))
    /\ UNCHANGED <<file, syncResult, requestVars, readerVars, streamVars, syncVars, transportVars>>

\* a call of validateFileContent of the prValidator module on file
RunSyncEngine ==
    /\ file # NoFile
    /\ ~syncResult.done
    /\ syncResult' = Returned(prValidator_validateFileContent(file))
    /\ UNCHANGED <<file, streamResult, requestVars, readerVars, streamVars, syncVars, transportVars>>

EngineNext == RunStreamEngine \/ RunSyncEngine

\* an engine run on a file named filename with a patch among patches
EngineInit(filenames, patches) ==
    /\ file \in [filename : filenames, hasPatch : {TRUE}, patch : patches]
    /\ streamResult = NotRun
    /\ syncResult = NotRun
    /\ HandlersIdle

-----------------------------------------------------------------------------
(* What the claims read off an engine run.                                 *)

F_e2eTs == <<"e","2","e","/","p","a","g","e","s","/","P","a","g","e",".","t","s">>
F_e2eSpec == <<"e","2","e","/","s","p","e","c","s","/","l","o","g","i","n",".","s","p","e","c",".","t","s">>
F_appTs == <<"a","p","p","/","u","t","i","l","/","P","a","g","e",".","t","s">>
F_appSpec == <<"a","p","p","/","u","t","i","l","/","l","o","g","i","n",".","s","p","e","c",".","t","s">>

\* the per-line rules of the streaming engine run on the file
rulesRun == ~patchMissing(file) /\ startsWith(file.filename, K_e2eDir)

\* the check kinds of an issue list, in order
kindsOf(issues) == [i \in 1..Len(issues) |-> issues[i].checkType]

\* the issues of kind checkType reported for the added line at pos (1-based)
\* of the file's patch
issuesFor(issues, pos, checkType) ==
    LET lines == file.patch
        cleanLine == cleanOf(addedLinesOf(lines)[pos])
    IN SelectSeq(issues, LAMBDA i :
           /\ i.checkType = checkType
           /\ i.importStatement = cleanLine
           /\ i.line = getOriginalLineNumber(lines, pos - 1))

\* the cleaned texts of the added lines of the file's patch
cleanAdded == [pos \in 1..Len(addedLinesOf(file.patch)) |->
                  cleanOf(addedLinesOf(file.patch)[pos])]

-----------------------------------------------------------------------------
(* Engine runs on import lines.                                            *)

L_hunk1 == <<"@","@"," ","-","1",",","3"," ","+","1",",","4"," ","@","@">>
L_context == <<" ","c","o","n","s","t"," ","a"," ","="," ","1",";">>
L_fileHeader == <<"+","+","+"," ","b","/","e","2","e","/","p","a","g","e","s","/","P","a","g","e",".","t","s">>
L_plain == <<"+","c","o","n","s","t"," ","b"," ","="," ","2",";">>
L_removedAssertionsTs == <<"-","i","m","p","o","r","t"," ","{"," ","A","s","s","e","r","t","i","o","n","s"," ","}"," ","f","r","o","m"," ","'",".",".","/","A","s","s","e","r","t","i","o","n","s",".","t","s","'",";">>
L_contextAssertionsTs == <<" ","i","m","p","o","r","t"," ","{"," ","A","s","s","e","r","t","i","o","n","s"," ","}"," ","f","r","o","m"," ","'",".",".","/","A","s","s","e","r","t","i","o","n","s",".","t","s","'",";">>
L_importAssertionsTs == <<"+","i","m","p","o","r","t"," ","{"," ","A","s","s","e","r","t","i","o","n","s"," ","}"," ","f","r","o","m"," ","'",".",".","/","A","s","s","e","r","t","i","o","n","s",".","t","s","'",";">>
L_importAssertionsFramework == <<"+","i","m","p","o","r","t"," ","{"," ","A","s","s","e","r","t","i","o","n","s"," ","}"," ","f","r","o","m"," ","'",".",".","/","f","r","a","m","e","w","o","r","k","/","A","s","s","e","r","t","i","o","n","s","'",";">>
L_importAssertions == <<"+","i","m","p","o","r","t"," ","{"," ","A","s","s","e","r","t","i","o","n","s"," ","}"," ","f","r","o","m"," ","'",".",".","/","A","s","s","e","r","t","i","o","n","s","'",";">>
L_importAssertionsFrameworkTs == <<"+","i","m","p","o","r","t"," ","{"," ","A","s","s","e","r","t","i","o","n","s"," ","}"," ","f","r","o","m"," ","'",".",".","/","f","r","a","m","e","w","o","r","k","/","A","s","s","e","r","t","i","o","n","s",".","t","s","'",";">>
L_importAssertionsMatchersTs == <<"+"," "," ","i","m","p","o","r","t"," ","{"," ","A","s","s","e","r","t","i","o","n","s",","," ","M","a","t","c","h","e","r","s"," ","}"," ","f","r","o","m"," ","'",".","/","u","t","i","l","s",".","t","s","'",";">>
L_importGestures == <<"+","i","m","p","o","r","t"," ","G","e","s","t","u","r","e","s"," ","f","r","o","m"," ","'",".",".","/","u","t","i","l","s","/","g","e","s","t","u","r","e","s","'",";">>
L_importWithFixtures == <<"+","i","m","p","o","r","t"," ","{"," ","w","i","t","h","F","i","x","t","u","r","e","s"," ","}"," ","f","r","o","m"," ","'",".",".","/","f","i","x","t","u","r","e","s","/","f","i","x","t","u","r","e","-","h","e","l","p","e","r","'",";">>
L_requireAssertions == <<"+","c","o","n","s","t"," ","A","s","s","e","r","t","i","o","n","s"," ","="," ","r","e","q","u","i","r","e","(","'",".",".","/","A","s","s","e","r","t","i","o","n","s",".","t","s","'",")",";">>
L_importEverything == <<"+","i","m","p","o","r","t"," ","{"," ","A","s","s","e","r","t","i","o","n","s",","," ","M","a","t","c","h","e","r","s",","," ","w","i","t","h","F","i","x","t","u","r","e","s",","," ","F","i","x","t","u","r","e","B","u","i","l","d","e","r"," ","}"," ","f","r","o","m"," ","'",".","/","g","e","s","t","u","r","e","s",".","t","s","'",";"," ","g","e","t"," ","x","(",")"," ","{","}">>

RuleLines ==
    { L_hunk1, L_context, L_fileHeader, L_plain, L_removedAssertionsTs,
      L_contextAssertionsTs, L_importAssertionsTs, L_importAssertionsFramework,
      L_importAssertions, L_importAssertionsFrameworkTs,
      L_importAssertionsMatchersTs, L_importGestures, L_importWithFixtures,
      L_requireAssertions, L_importEverything }

MaxRuleLines == 2

RulesInit ==
    EngineInit({F_e2eTs, F_e2eSpec, F_appTs}, SeqsOf(RuleLines, 1, MaxRuleLines))

SpecRules == RulesInit /\ [][EngineNext]_vars

\* the two Assertions rules hold of the issue list of an engine run
AssertionsRulesHold(issues) ==
    /\ \A pos \in 1..Len(cleanAdded) :
          (includes(cleanAdded[pos], K_import) /\ includes(cleanAdded[pos], K_Assertions))
          => /\ Len(issuesFor(issues, pos, "assertions-framework"))
                  = (IF ~includes(cleanAdded[pos], K_framework) THEN 1 ELSE 0)
             /\ Len(issuesFor(issues, pos, "assertions-no-ts"))
                  = (IF includes(cleanAdded[pos], K_dotTs) THEN 1 ELSE 0)
    /\ addedLinesOf(file.patch) = << L_importAssertionsTs >>
          => kindsOf(issues) = << "assertions-framework", "assertions-no-ts" >>
    /\ addedLinesOf(file.patch) = << L_importAssertionsFramework >>
          => issues = <<>>

\* C1: on a file on which the rules run, an added line that contains 'import'
\* and 'Assertions' gets an assertions-framework issue iff it lacks
\* '/framework' and an assertions-no-ts issue iff it contains '.ts', each
\* independently of the other; the '../Assertions.ts' import line alone yields
\* exactly these two issues and the '../framework/Assertions' line none.
C1_AssertionsRules ==
    /\ (streamResult.done /\ rulesRun) => AssertionsRulesHold(streamResult.issues)
    /\ syncResult.done => AssertionsRulesHold(syncResult.issues)

C1_Witness ==
    /\ streamResult.done /\ syncResult.done /\ rulesRun
    /\ addedLinesOf(file.patch) = << L_importAssertionsTs >>
    /\ kindsOf(streamResult.issues) = << "assertions-framework", "assertions-no-ts" >>
    /\ kindsOf(syncResult.issues) = << "assertions-framework", "assertions-no-ts" >>

-----------------------------------------------------------------------------
(* Engine runs on getter declarations.                                     *)

\* Promise<T>
PromiseOf(type) == K_PromiseOpen \o type \o <<">">>

GetterHeads == { <<"+"," "," ","g","e","t"," ","n","a","m","e","(",")">>, <<"+","s","t","a","t","i","c"," ","g","e","t"," "," ","b","u","t","t","o","n","_","1"," ","("," ",")">> }
GetterColons == { <<":"," ">>, <<" ",":">> }
\* what follows the annotation: nothing, the opening of the body, or a body
\* that reads a getter of an allow-listed type
GetterTailsPlain == { <<>>, <<" ","{">>, <<";">> }
GetterTailsWithTypeAccess ==
    { <<" ","{"," ","r","e","t","u","r","n"," ","D","e","t","o","x","E","l","e","m","e","n","t",".","g","e","t","B","y","I","d","(","i","d",")",";"," ","}">>, <<" ","{"," ","r","e","t","u","r","n"," ","W","e","b","E","l","e","m","e","n","t","[","'","g","e","t","B","y","X","P","a","t","h","'","]","(","p",")",";"," ","}">> }
GetterTails == GetterTailsPlain \cup GetterTailsWithTypeAccess

T_SomeRandomType == <<"S","o","m","e","R","a","n","d","o","m","T","y","p","e">>
T_string == <<"s","t","r","i","n","g">>

AllowListedTypes == { VALID_GETTER_TYPES[i] : i \in 1..Len(VALID_GETTER_TYPES) }
ValidAnnotations == AllowListedTypes \cup { PromiseOf(t) : t \in AllowListedTypes }
InvalidAnnotations ==
    { T_SomeRandomType, T_string, PromiseOf(T_SomeRandomType),
      PromiseOf(PromiseOf(T_DetoxElement)) }

\* the added getter declarations annotated with a type among annotations
GetterLines(annotations, tails) ==
    { head \o colon \o type \o tail :
        head \in GetterHeads, colon \in GetterColons, type \in annotations, tail \in tails }

ValidGetterLines == GetterLines(ValidAnnotations, GetterTails)
InvalidGetterLines == GetterLines(InvalidAnnotations, GetterTails)

\* a getter without annotation, flagged unless it reads a getter of a valid type
L_getterUntyped == <<"+"," "," ","g","e","t"," ","n","a","m","e","(",")"," ","{">>

MaxLeadLines == 1

\* a getter declaration after up to MaxLeadLines other lines
GetterPatches ==
    { lead \o << line >> :
        lead \in SeqsOf({L_hunk1, L_context}, 0, MaxLeadLines),
        line \in ValidGetterLines \cup InvalidGetterLines \cup {L_getterUntyped} }

GettersInit == EngineInit({F_e2eTs, F_appTs}, GetterPatches)

SpecGetters == GettersInit /\ [][EngineNext]_vars

\* no added line among lineSet gets a getter-type issue in issues
NoGetterIssue(issues, lineSet) ==
    \A pos \in 1..Len(cleanAdded) :
        addedLinesOf(file.patch)[pos] \in lineSet
        => issuesFor(issues, pos, "getter-type") = <<>>

\* every added line among lineSet gets one getter-type issue in issues
OneGetterIssue(issues, lineSet) ==
    \A pos \in 1..Len(cleanAdded) :
        addedLinesOf(file.patch)[pos] \in lineSet
        => Len(issuesFor(issues, pos, "getter-type")) = 1

\* C2: a getter declared `get name(): T` or `get name(): Promise<T>` with T
\* of VALID_GETTER_TYPES never gets a getter-type issue, in either engine.
C2_ValidGetterNotFlagged ==
    /\ streamResult.done => NoGetterIssue(streamResult.issues, ValidGetterLines)
    /\ syncResult.done => NoGetterIssue(syncResult.issues, ValidGetterLines)

C2_Witness ==
    /\ streamResult.done /\ syncResult.done /\ rulesRun
    /\ \E pos \in 1..Len(cleanAdded) :
          /\ addedLinesOf(file.patch)[pos]
                \in GetterLines({PromiseOf(T_DetoxMatcher)}, GetterTailsPlain)
          /\ getterMethodRegexTest(cleanAdded[pos])
    /\ streamResult.issues = <<>>
    /\ syncResult.issues = <<>>

\* C3 as claimed: a getter annotated with a type that is neither allow-listed
\* nor Promise<allow-listed> always gets a getter-type issue, whatever else
\* the line contains.
C3_InvalidAnnotationFlagged ==
    /\ (streamResult.done /\ rulesRun)
          => OneGetterIssue(streamResult.issues, InvalidGetterLines)
    /\ syncResult.done => OneGetterIssue(syncResult.issues, InvalidGetterLines)

-----------------------------------------------------------------------------
(* Engine runs on test files.                                              *)

L_testOneLine == <<"+","i","t","(","'","d","o","e","s"," ","X","'",","," ","a","s","y","n","c"," ","(",")"," ","=",">"," ","{"," ","a","w","a","i","t"," ","s","o","m","e","t","h","i","n","g","(",")",";"," ","}",")",";">>
L_testOneLineFixtures == <<"+","i","t","(","'","d","o","e","s"," ","X","'",","," ","a","s","y","n","c"," ","(",")"," ","=",">"," ","{"," ","a","w","a","i","t"," ","w","i","t","h","F","i","x","t","u","r","e","s","(","{","}",","," ","a","s","y","n","c"," ","(",")"," ","=",">"," ","{",".",".",".","}",")",";"," ","}",")",";">>
L_testOpen == <<"+"," "," ","i","t","(","'","d","o","e","s"," ","Y","'",","," ","a","s","y","n","c"," ","(",")"," ","=",">"," ","{">>
L_addedFixtureCall == <<"+"," "," "," "," ","a","w","a","i","t"," ","w","i","t","h","F","i","x","t","u","r","e","s","(","{","}",","," ","a","s","y","n","c"," ","(",")"," ","=",">"," ","{","}",")",";">>
L_addedClose == <<"+"," "," ","}",")",";">>
L_contextFixtureCall == <<" "," "," "," "," ","a","w","a","i","t"," ","w","i","t","h","F","i","x","t","u","r","e","s","(","{"," ","f","i","x","t","u","r","e"," ","}",","," ","a","s","y","n","c"," ","(",")"," ","=",">"," ","{","}",")",";">>

TestLines ==
    { L_hunk1, L_context, L_testOneLine, L_testOneLineFixtures, L_testOpen,
      L_addedFixtureCall, L_addedClose, L_contextFixtureCall }

MaxTestLines == 3

TestsInit == EngineInit({F_e2eSpec, F_appSpec}, SeqsOf(TestLines, 1, MaxTestLines))

SpecTests == TestsInit /\ [][EngineNext]_vars

\* the test-withfixtures issues of an issue list
testIssuesOf(issues) == SelectSeq(issues, LAMBDA i : i.checkType = "test-withfixtures")

\* the fixture token occurs on no line of the file's patch
noFixtureToken == \A k \in 1..Len(file.patch) : ~includes(file.patch[k], K_withFixtures)

\* the streaming engine applies the test-block scanner to the file
streamScansTests == rulesRun /\ endsWith(file.filename, K_specTs)
\* the prValidator engine applies the test-block scanner to the file
syncScansTests == ~patchMissing(file) /\ endsWith(file.filename, K_specTs)

\* the one test-withfixtures issue of the one-line test
OneLineTestReported(issues) ==
    /\ Len(testIssuesOf(issues)) = 1
    /\ testIssuesOf(issues)[1].importStatement = cleanOf(L_testOneLine)
    /\ testIssuesOf(issues)[1].file = file.filename

\* C4: in a .spec.ts file (under e2e/ for the streaming engine) whose only
\* added line is the one-line test `it('does X', async () => { await
\* something(); });`, with withFixtures nowhere in the patch, exactly one
\* test-withfixtures issue is produced and its snippet is the cleaned line.
C4_OneLineTestReported ==
    (addedLinesOf(file.patch) = << L_testOneLine >> /\ noFixtureToken)
    => /\ (streamResult.done /\ streamScansTests)
             => OneLineTestReported(streamResult.issues)
       /\ (syncResult.done /\ syncScansTests)
             => OneLineTestReported(syncResult.issues)

C4_Witness ==
    /\ addedLinesOf(file.patch) = << L_testOneLine >>
    /\ Len(file.patch) > 1
    /\ noFixtureToken
    /\ streamResult.done /\ streamScansTests
    /\ syncResult.done
    /\ OneLineTestReported(streamResult.issues)
    /\ OneLineTestReported(syncResult.issues)

\* no test-withfixtures issue of issues is for a declaration line that
\* itself holds the fixture token
NoIssueForFixtureDeclaration(issues) ==
    \A k \in 1..Len(testIssuesOf(issues)) :
        ~includes(testIssuesOf(issues)[k].importStatement, K_withFixtures)

\* C5 as claimed: in both engines an added test declaration whose line holds
\* withFixtures yields no test-withfixtures issue for that declaration,
\* whatever follows it.
C5_FixtureOnDeclarationLine ==
    /\ (streamResult.done /\ streamScansTests)
          => NoIssueForFixtureDeclaration(streamResult.issues)
    /\ (syncResult.done /\ syncScansTests)
          => NoIssueForFixtureDeclaration(syncResult.issues)

-----------------------------------------------------------------------------
(* Engine runs on hunks.                                                   *)

L_hunk12 == <<"@","@"," ","-","1","0",",","3"," ","+","1","2",",","4"," ","@","@"," ","c","l","a","s","s"," ","P","a","g","e"," ","{">>

HunkLines ==
    { L_hunk1, L_hunk12, L_context, L_removedAssertionsTs, L_importAssertions,
      L_importGestures }

MaxHunkLines == 4

HunksInit == EngineInit({F_e2eTs}, SeqsOf(HunkLines, 1, MaxHunkLines))

SpecHunks == HunksInit /\ [][EngineNext]_vars

isHunkHeader(line) == startsWith(line, K_hunkMark)

\* the issues of an issue list that the per-line rules pushed
perLineIssuesOf(issues) == SelectSeq(issues, LAMBDA i : i.checkType # "test-withfixtures")

\* C6 as claimed: when no line of the patch starts with '@@', every issue
\* reported for an added line carries 'N/A' and never an integer.
C6_NoHunkHeaderGivesNA ==
    (\A k \in 1..Len(file.patch) : ~isHunkHeader(file.patch[k]))
    => /\ streamResult.done
             => \A k \in 1..Len(streamResult.issues) : streamResult.issues[k].line = NA
       /\ syncResult.done
             => \A k \in 1..Len(syncResult.issues) : syncResult.issues[k].line = NA

\* the position in lines of the added line at pos (1-based) of the added lines
patchPosOf(lines, pos) ==
    CHOOSE k \in 1..Len(lines) :
        /\ isAddedLine(lines[k])
        /\ Cardinality({ m \in 1..k : isAddedLine(lines[m]) }) = pos

\* c + n - 1 for the added line at patch position k, with c the new-file start
\* of the nearest hunk header before it (at position h) and n the number of
\* non-removed lines after the header up to the added line, the added line
\* counted (inclusive) or not
claimedLine(lines, h, k, inclusive) ==
    LET c == parseInt(hunkHeaderRegexMatch(lines[h])[1])
        n == Cardinality({ m \in (h + 1)..(k - 1) : ~startsWith(lines[m], K_minus) })
             + (IF inclusive THEN 1 ELSE 0)
    IN Num(c + n - 1)

\* the issues reported for added lines preceded by a hunk header carry
\* c + n - 1, under either reading of n
HunkRelativeLines(issues) ==
    \A pos \in 1..Len(cleanAdded) :
        LET lines == file.patch
            k == patchPosOf(lines, pos)
            h == hunkHeaderIndexFrom(lines, k)
        IN (h > 0 /\ hunkHeaderRegexMatch(lines[h]) # <<>>)
           => \A i \in 1..Len(perLineIssuesOf(issues)) :
                 perLineIssuesOf(issues)[i].importStatement = cleanAdded[pos]
                 => \E p2 \in 1..Len(cleanAdded) :
                       /\ cleanAdded[p2] = cleanAdded[pos]
                       /\ LET k2 == patchPosOf(lines, p2)
                              h2 == hunkHeaderIndexFrom(lines, k2)
                          IN /\ h2 > 0
                             /\ hunkHeaderRegexMatch(lines[h2]) # <<>>
                             /\ perLineIssuesOf(issues)[i].line
                                   \in { claimedLine(lines, h2, k2, TRUE),
                                         claimedLine(lines, h2, k2, FALSE) }

\* C7 as claimed: the line reported for an added line preceded by a hunk
\* header `@@ -a,b +c,d @@` is c + n - 1, n counting the non-removed lines
\* between that header and the added line.
C7_LineFromHunkHeader ==
    /\ (streamResult.done /\ rulesRun) => HunkRelativeLines(streamResult.issues)
    /\ syncResult.done => HunkRelativeLines(syncResult.issues)

\* the first line is a hunk header of the expected form and the only one
wellFormedSingleHunk(lines) ==
    /\ isHunkHeader(lines[1])
    /\ hunkHeaderRegexMatch(lines[1]) # <<>>
    /\ \A k \in 2..Len(lines) : ~isHunkHeader(lines[k])

\* the line values of issues never decrease along the list, and each is the
\* number recovered for an added line with the issue's snippet
LinesFollowAddedLines(issues) ==
    /\ \A i \in 1..Len(issues) :
          \E pos \in 1..Len(cleanAdded) :
             /\ issues[i].importStatement = cleanAdded[pos]
             /\ issues[i].line = getOriginalLineNumber(file.patch, pos - 1)
    /\ \A i, j \in 1..Len(issues) :
          i < j => /\ issues[i].line.kind = "number"
                   /\ issues[j].line.kind = "number"
                   /\ issues[i].line.value <= issues[j].line.value

\* C8: in a well-formed single-hunk patch the line number recovered by
\* getOriginalLineNumber increases strictly with the ordinal position of the
\* added line, and the per-line issues of both engines carry these numbers.
C8_LineNumbersIncrease ==
    wellFormedSingleHunk(file.patch)
    => /\ \A i, j \in 1..Len(cleanAdded) :
             i < j => LET a == getOriginalLineNumber(file.patch, i - 1)
                          b == getOriginalLineNumber(file.patch, j - 1)
                      IN a.kind = "number" /\ b.kind = "number" /\ a.value < b.value
       /\ (streamResult.done /\ rulesRun)
             => LinesFollowAddedLines(perLineIssuesOf(streamResult.issues))
       /\ syncResult.done
             => LinesFollowAddedLines(perLineIssuesOf(syncResult.issues))

C8_Witness ==
    /\ Len(file.patch) = 4
    /\ wellFormedSingleHunk(file.patch)
    /\ file.patch[2] = L_importAssertions
    /\ file.patch[3] = L_removedAssertionsTs
    /\ file.patch[4] = L_importGestures
    /\ streamResult.done /\ syncResult.done
    /\ Len(streamResult.issues) = 2
    /\ streamResult.issues[1].line.value < streamResult.issues[2].line.value
    /\ syncResult.issues = streamResult.issues

-----------------------------------------------------------------------------
(* PR link parsing.                                                        *)

K_githubPrefix == <<"h","t","t","p","s",":","/","/","g","i","t","h","u","b",".","c","o","m","/">>
K_pullSegment == <<"/","p","u","l","l","/">>

RECURSIVE skipUntil(_, _, _)
\* the first position >= p of s that holds character c (Len(s) + 1 if none)
skipUntil(s, p, c) ==
    IF p <= Len(s) /\ s[p] # c THEN skipUntil(s, p + 1, c) ELSE p

\* /https:\/\/github\.com\/([^\/]+)\/([^\/]+)\/pull\/(\d+)/ matched at position
\* p: <<>> when it does not match, else <<owner, repo, digits>>
prUrlAt(s, p) ==
    IF ~matchAt(s, p, K_githubPrefix) THEN <<>>
    ELSE LET a == p + Len(K_githubPrefix)
             b == skipUntil(s, a, "/")
             c == skipUntil(s, b + 1, "/")
             d == c + Len(K_pullSegment)
             e == skipWhile(s, d, DigitChars)
         IN IF b > a /\ b <= Len(s) /\ c > b + 1 /\ matchAt(s, c, K_pullSegment) /\ e > d
            THEN << SubSeq(s, a, b - 1), SubSeq(s, b + 1, c - 1), SubSeq(s, d, e - 1) >>
            ELSE <<>>

\* prUrl.match(regex): <<>> for null, else the three groups of the leftmost match
prUrlMatch(s) ==
    LET ps == { p \in 1..Len(s) : prUrlAt(s, p) # <<>> }
    IN IF ps = {} THEN <<>>
       ELSE prUrlAt(s, CHOOSE p \in ps : \A q \in ps : p <= q)

\* a parseGitHubPrUrl that reads the groups without testing the match
parseGitHubPrUrl_noThrow(prUrl) ==
    LET match == prUrlMatch(prUrl)
    IN IF match = <<>> THEN [ok |-> TRUE, owner |-> <<>>, repo |-> <<>>, pullNumber |-> 0]
       ELSE [ok |-> TRUE, owner |-> match[1], repo |-> match[2],
             pullNumber |-> parseInt(match[3])]

\* parseGitHubPrUrl: [ok |-> FALSE] when it throws 'Invalid GitHub PR URL'
parseGitHubPrUrl(prUrl) ==
    LET match == prUrlMatch(prUrl)
    IN IF match = <<>> THEN [ok |-> FALSE]
       ELSE [ok |-> TRUE, owner |-> match[1], repo |-> match[2],
             pullNumber |-> parseInt(match[3])]

-----------------------------------------------------------------------------
(* The delivery paths: processPrValidation (streaming) and validatePr.     *)

\* what pulls.get answers for the PR of the link: title, html_url, user.login
pullRequestOf(link) == [title |-> "Migrate page objects", url |-> link, author |-> "octocat"]

\* the message of the error the GitHub API call throws when it fails
GitHubFailure == "Not Found"

InitEvent == [type |-> "init", message |-> "Starting PR validation..."]
PrInfoEvent(pr) == [type |-> "pr_info", data |-> pr]
TotalFilesEvent(count) == [type |-> "total_files", count |-> count]
FileCheckedEvent(filename) == [type |-> "file_checked", file |-> filename]
IssueFoundEvent(issues) == [type |-> "issue_found", issues |-> issues]
\* a complete event whose filesChecked counts the issues
CompleteEvent_countsIssues(pr, issues, filesChecked, checked) ==
    [type |-> "complete",
     data |-> [pr |-> pr, issues |-> issues, filesChecked |-> Len(issues),
               checkedFiles |-> checked]]

CompleteEvent(pr, issues, filesChecked, checked) ==
    [type |-> "complete",
     data |-> [pr |-> pr, issues |-> issues, filesChecked |-> filesChecked,
               checkedFiles |-> checked]]
ErrorEvent(message) == [type |-> "error", message |-> message]

\* a loop that passes over a file without a patch before recording it
pushChecked_skipMissing(checked, f) ==
    IF patchMissing(f) THEN checked ELSE Append(checked, f.filename)

\* a loop that records only the files the rules run on
pushChecked_onlyE2e(checked, f) ==
    IF startsWith(f.filename, K_e2eDir) THEN Append(checked, f.filename) ELSE checked

\* checkedFiles.push(file.filename)
pushChecked(checked, f) == Append(checked, f.filename)

\* an iteration that validates first and announces the file afterwards
fileEvents_issuesFirst(f) ==
    LET fileIssues == validateFileContent(f)
    IN (IF Len(fileIssues) > 0 THEN << IssueFoundEvent(fileIssues) >> ELSE <<>>)
       \o << FileCheckedEvent(f.filename) >>

\* the events one iteration of the streaming loop writes for file f
fileEvents(f) ==
    LET fileIssues == validateFileContent(f)
    IN << FileCheckedEvent(f.filename) >>
       \o (IF Len(fileIssues) > 0 THEN << IssueFoundEvent(fileIssues) >> ELSE <<>>)

\* allIssues.push(...fileIssues) put in front instead of at the end
pushIssues_unshift(all, fileIssues) == fileIssues \o all

\* allIssues.push(...fileIssues)
pushIssues(all, fileIssues) == all \o fileIssues

\* writer.write is called n times in this step: each call on a stream the
\* client has cancelled returns a rejected promise nobody awaits
writesRejected(n) == failedWrites' = IF clientGone THEN failedWrites + n ELSE failedWrites

\* the catch block of processPrValidation: one error event, then close
StreamFail(message) ==
    /\ written' = Append(written, ErrorEvent(message))
    /\ writesRejected(1)
    /\ writerClosed' = TRUE
    /\ streamPc' = "done"
    /\ UNCHANGED <<fileIdx, allIssues, checkedFiles>>

\* the streaming loop from its next iteration to its next await, after the
\* events in w were written: the iteration for the next file, or, when no
\* file is left, the complete event and the close of the writer
StreamLoopStep(w) ==
    IF fileIdx < Len(prFiles)
    THEN LET f == prFiles[fileIdx + 1]
         IN /\ checkedFiles' = pushChecked(checkedFiles, f)
            /\ allIssues' = pushIssues(allIssues, validateFileContent(f))
            /\ written' = w \o fileEvents(f)
            /\ writesRejected(Len(w) - Len(written) + Len(fileEvents(f)))
            /\ fileIdx' = fileIdx + 1
            /\ streamPc' = "loop"
            /\ UNCHANGED writerClosed
    ELSE /\ written' = Append(w, CompleteEvent(pullRequestOf(prLink), allIssues,
                                               Len(prFiles), checkedFiles))
         /\ writesRejected(Len(w) - Len(written) + 1)
         /\ writerClosed' = TRUE
         /\ streamPc' = "done"
         /\ UNCHANGED <<fileIdx, allIssues, checkedFiles>>

\* POST of validate/stream up to the first await of processPrValidation
StreamPost ==
    /\ streamPc = "post"
    /\ IF prLink = <<>>
       THEN /\ streamPc' = "rejected"
            /\ UNCHANGED <<fileIdx, allIssues, checkedFiles, written, writerClosed,
                           failedWrites, fetchCalls>>
       ELSE IF ~parseGitHubPrUrl(prLink).ok
       THEN StreamFail("Invalid GitHub PR URL") /\ UNCHANGED fetchCalls
       ELSE /\ written' = Append(written, InitEvent)
            /\ writesRejected(1)
            /\ fetchCalls' = Append(fetchCalls, "pulls.get")
            /\ streamPc' = "getPr"
            /\ UNCHANGED <<fileIdx, allIssues, checkedFiles, writerClosed>>
    /\ UNCHANGED <<engineVars, requestVars, readerVars, syncVars, clientGone>>

\* octokit.rest.pulls.get answers
StreamGetPr ==
    /\ streamPc = "getPr"
    /\ written' = Append(written, PrInfoEvent(pullRequestOf(prLink)))
    /\ writesRejected(1)
    /\ fetchCalls' = Append(fetchCalls, "pulls.listFiles")
    /\ streamPc' = "listFiles"
    /\ UNCHANGED <<fileIdx, allIssues, checkedFiles, writerClosed>>
    /\ UNCHANGED <<engineVars, requestVars, readerVars, syncVars, clientGone>>

\* octokit.rest.pulls.listFiles answers: total_files and the first iteration
StreamListFiles ==
    /\ streamPc = "listFiles"
    /\ StreamLoopStep(Append(written, TotalFilesEvent(Len(prFiles))))
    /\ UNCHANGED <<engineVars, requestVars, readerVars, syncVars, fetchCalls, clientGone>>

\* the delay at the end of an iteration is over
StreamNextFile ==
    /\ streamPc = "loop"
    /\ StreamLoopStep(written)
    /\ UNCHANGED <<engineVars, requestVars, readerVars, syncVars, fetchCalls, clientGone>>

\* a call of the GitHub API throws
StreamFetchFails ==
    /\ streamPc \in {"getPr", "listFiles"}
    /\ StreamFail(GitHubFailure)
    /\ UNCHANGED <<engineVars, requestVars, readerVars, syncVars, fetchCalls, clientGone>>

\* the client goes away while the response is streamed: the readable side of
\* the TransformStream is cancelled and its writable side no longer accepts
ClientDisconnects ==
    /\ streamPc \in {"getPr", "listFiles", "loop"}
    /\ ~clientGone
    /\ clientGone' = TRUE
    /\ UNCHANGED <<engineVars, requestVars, readerVars, syncVars, streamVars, fetchCalls, failedWrites>>

RECURSIVE prValidator_allIssues(_, _)
\* the loop of validatePr over the first k files: its allIssues
prValidator_allIssues(files, k) ==
    IF k = 0 THEN <<>>
    ELSE pushIssues(prValidator_allIssues(files, k - 1),
                    prValidator_validateFileContent(files[k]))

RECURSIVE prValidator_checkedFiles(_, _)
\* the loop of validatePr over files up to position k: its checkedFiles
prValidator_checkedFiles(files, k) ==
    IF k = 0 THEN <<>>
    ELSE pushChecked(prValidator_checkedFiles(files, k - 1), files[k])

\* the catch of validatePr rethrows and POST answers 500 with the message
SyncFail(message) ==
    /\ syncResponse' = [status |-> 500,
                        body |-> [message |-> << "Failed to validate PR: ", message >>]]
    /\ syncPc' = "done"

\* POST of validate up to the first await of validatePr
SyncPost ==
    /\ syncPc = "post"
    /\ IF prLink = <<>>
       THEN /\ syncResponse' = [status |-> 400, body |-> [message |-> << "PR link is required" >>]]
            /\ syncPc' = "done"
            /\ UNCHANGED fetchCalls
       ELSE IF ~parseGitHubPrUrl(prLink).ok
       THEN SyncFail("Invalid GitHub PR URL") /\ UNCHANGED fetchCalls
       ELSE /\ syncPc' = "getPr"
            /\ fetchCalls' = Append(fetchCalls, "pulls.get")
            /\ UNCHANGED syncResponse
    /\ UNCHANGED <<engineVars, requestVars, readerVars, streamVars, clientGone, failedWrites>>

\* octokit.rest.pulls.get answers
SyncGetPr ==
    /\ syncPc = "getPr"
    /\ syncPc' = "listFiles"
    /\ fetchCalls' = Append(fetchCalls, "pulls.listFiles")
    /\ UNCHANGED <<syncResponse, engineVars, requestVars, readerVars, streamVars, clientGone, failedWrites>>

\* octokit.rest.pulls.listFiles answers: the loop over the files and the result
SyncListFiles ==
    /\ syncPc = "listFiles"
    /\ syncResponse' =
          [status |-> 200,
           body |-> [pr |-> pullRequestOf(prLink),
                     issues |-> prValidator_allIssues(prFiles, Len(prFiles)),
                     filesChecked |-> Len(prFiles),
                     checkedFiles |-> prValidator_checkedFiles(prFiles, Len(prFiles))]]
    /\ syncPc' = "done"
    /\ UNCHANGED <<engineVars, requestVars, readerVars, streamVars, transportVars>>

\* a call of the GitHub API throws
SyncFetchFails ==
    /\ syncPc \in {"getPr", "listFiles"}
    /\ SyncFail(GitHubFailure)
    /\ UNCHANGED <<engineVars, requestVars, readerVars, streamVars, transportVars>>

Next ==
    \/ StreamPost
    \/ StreamGetPr
    \/ StreamListFiles
    \/ StreamNextFile
    \/ StreamFetchFails
    \/ ClientDisconnects
    \/ SyncPost
    \/ SyncGetPr
    \/ SyncListFiles
    \/ SyncFetchFails

U_validPr == <<"h","t","t","p","s",":","/","/","g","i","t","h","u","b",".","c","o","m","/","M","e","t","a","M","a","s","k","/","m","e","t","a","m","a","s","k","-","m","o","b","i","l","e","/","p","u","l","l","/","1","2">>
U_notAPr == <<"h","t","t","p","s",":","/","/","g","i","t","h","u","b",".","c","o","m","/","M","e","t","a","M","a","s","k","/","m","e","t","a","m","a","s","k","-","m","o","b","i","l","e","/","i","s","s","u","e","s","/","1","2">>

U_httpPr == <<"h","t","t","p",":","/","/","g","i","t","h","u","b",".","c","o","m","/","M","e","t","a","M","a","s","k","/","m","e","t","a","m","a","s","k","-","m","o","b","i","l","e","/","p","u","l","l","/","1","2">>
U_noNumber == <<"h","t","t","p","s",":","/","/","g","i","t","h","u","b",".","c","o","m","/","M","e","t","a","M","a","s","k","/","m","e","t","a","m","a","s","k","-","m","o","b","i","l","e","/","p","u","l","l","/">>
U_noRepo == <<"h","t","t","p","s",":","/","/","g","i","t","h","u","b",".","c","o","m","/","M","e","t","a","M","a","s","k","/","p","u","l","l","/","1","2">>

\* the links that are not the URL of a PR
InvalidLinks == { U_notAPr, U_httpPr, U_noNumber, U_noRepo }

PrLinks == { <<>>, U_validPr } \cup InvalidLinks

F_e2ePng == <<"e","2","e","/","r","e","s","o","u","r","c","e","s","/","l","o","g","o",".","p","n","g">>
F_e2eRemoved == <<"e","2","e","/","p","a","g","e","s","/","O","l","d",".","t","s">>

\* the changed files a PR is made of
FileCatalog ==
    { [filename |-> F_e2ePng, hasPatch |-> FALSE, patch |-> <<>>],
      [filename |-> F_e2eRemoved, hasPatch |-> TRUE, patch |-> << <<>> >>],
      [filename |-> F_e2eTs, hasPatch |-> TRUE,
       patch |-> << L_hunk1, L_importAssertionsTs >>],
      [filename |-> F_appSpec, hasPatch |-> TRUE,
       patch |-> << L_importAssertions, L_testOneLine >>],
      [filename |-> F_e2eSpec, hasPatch |-> TRUE,
       patch |-> << L_hunk12, L_testOneLine >>] }

MaxFiles == 3

Init ==
    /\ file = NoFile
    /\ streamResult = NotRun
    /\ syncResult = NotRun
    /\ prLink \in PrLinks
    /\ prFiles \in SeqsOf(FileCatalog, 0, MaxFiles)
    /\ \/ streamPc = "post" /\ syncPc = "idle"
       \/ streamPc = "idle" /\ syncPc = "post"
    /\ fileIdx = 0
    /\ allIssues = <<>>
    /\ checkedFiles = <<>>
    /\ written = <<>>
    /\ writerClosed = FALSE
    /\ syncResponse = [status |-> 0]
    /\ fetchCalls = <<>>
    /\ clientGone = FALSE
    /\ failedWrites = 0
    /\ ReaderIdle

Spec == Init /\ [][Next]_vars

-----------------------------------------------------------------------------
(* Files without a patch on the delivery paths.                            *)

\* the positions in written of the file_checked events
fileCheckedPositions ==
    SelectSeq([i \in 1..Len(written) |-> i], LAMBDA i : written[i].type = "file_checked")

\* the events written for the k-th file: its file_checked event and what
\* follows it up to the next file_checked, complete or error event
eventsOfFile(k) ==
    LET from == fileCheckedPositions[k]
        stops == { j \in (from + 1)..Len(written) :
                       written[j].type \in {"file_checked", "complete", "error"} }
        to == IF stops = {} THEN Len(written)
              ELSE (CHOOSE j \in stops : \A q \in stops : j <= q) - 1
    IN SubSeq(written, from, to)

\* the issues of a list that name the file
issuesOfFile(issues, filename) == SelectSeq(issues, LAMBDA issue : issue.file = filename)

\* the file at position k of the PR has no patch
absentPatch(k) == k \in 1..Len(prFiles) /\ ~prFiles[k].hasPatch

\* the streaming loop has run its iteration for the k-th file
streamProcessed(k) == streamPc \in {"loop", "done"} /\ k <= fileIdx

\* the stream carries a complete event
streamCompleted == written # <<>> /\ written[Len(written)].type = "complete"

\* C10: a file whose patch is absent yields zero issues, its filename is still
\* appended to checkedFiles and counted in filesChecked; on the streaming path
\* it gets a file_checked event and no issue_found event
C10_AbsentPatchStillChecked ==
    \A k \in 1..Len(prFiles) :
        absentPatch(k) =>
            LET name == prFiles[k].filename
            IN /\ streamProcessed(k) =>
                    /\ Len(checkedFiles) >= k /\ checkedFiles[k] = name
                    /\ Len(fileCheckedPositions) >= k
                    /\ eventsOfFile(k) = << FileCheckedEvent(name) >>
                    /\ issuesOfFile(allIssues, name) = <<>>
               /\ streamCompleted =>
                    LET data == written[Len(written)].data
                    IN /\ data.filesChecked = Len(prFiles)
                       /\ Len(data.checkedFiles) = Len(prFiles)
                       /\ data.checkedFiles[k] = name
                       /\ issuesOfFile(data.issues, name) = <<>>
               /\ syncResponse.status = 200 =>
                    /\ syncResponse.body.filesChecked = Len(prFiles)
                    /\ Len(syncResponse.body.checkedFiles) = Len(prFiles)
                    /\ syncResponse.body.checkedFiles[k] = name
                    /\ issuesOfFile(syncResponse.body.issues, name) = <<>>

\* a completed stream whose PR holds a file without a patch after a file
\* that raised issues
C10_Witness ==
    /\ streamCompleted
    /\ Len(prFiles) = 2
    /\ absentPatch(2)
    /\ Len(validateFileContent(prFiles[1])) > 0
    /\ checkedFiles[2] = prFiles[2].filename
    /\ written[Len(written) - 1] = FileCheckedEvent(prFiles[2].filename)

-----------------------------------------------------------------------------
(* Repeated evaluation of one file.                                        *)

\* the issues the stream reports for the k-th file: those of its issue_found
\* event, none when it has no such event
issuesReported(k) ==
    LET events == eventsOfFile(k)
    IN IF Len(events) >= 2 /\ events[2].type = "issue_found" THEN events[2].issues ELSE <<>>

\* the positions of the PR that hold the same filename and patch as position k
sameFileAs(k) == { i \in 1..Len(prFiles) : prFiles[i] = prFiles[k] }

-----------------------------------------------------------------------------
(* The reports of the two delivery paths.                                  *)

\* the report of the streaming path: the data of its complete event
streamReport == written[Len(written)].data

\* the report of the non-streaming path: the body of its 200 response
syncReport == syncResponse.body

\* filesChecked is the length of checkedFiles and every issue names a checked file
reportConsistent(r) ==
    /\ r.filesChecked = Len(r.checkedFiles)
    /\ \A n \in 1..Len(r.issues) :
          \E k \in 1..Len(r.checkedFiles) : r.checkedFiles[k] = r.issues[n].file

\* C11: in every report produced (the non-streaming response and the data of
\* the streaming complete event) filesChecked equals the length of
\* checkedFiles and the file of every issue is an element of checkedFiles
C11_ReportConsistent ==
    /\ streamCompleted => reportConsistent(streamReport)
    /\ syncResponse.status = 200 => reportConsistent(syncReport)

\* a report of the streaming path on three files, with issues, one file of
\* which lies outside e2e/
C11_Witness ==
    /\ streamCompleted
    /\ streamReport.filesChecked = 3
    /\ Len(streamReport.issues) > 0
    /\ \E k \in 1..3 : ~startsWith(streamReport.checkedFiles[k], K_e2eDir)

-----------------------------------------------------------------------------
(* The order of the events of a stream.                                    *)

TerminalTypes == {"complete", "error"}

\* the event at position i of the stream is where the protocol puts it
eventInOrder(i) ==
    LET e == written[i]
    IN CASE e.type = "error" -> i = Len(written)
         [] i = 1 -> e.type = "init"
         [] i = 2 -> e.type = "pr_info"
         [] i = 3 -> e.type = "total_files" /\ e.count = Len(prFiles)
         [] e.type = "file_checked" -> written[i - 1].type \in {"total_files", "file_checked", "issue_found"}
         [] e.type = "issue_found" ->
                /\ written[i - 1].type = "file_checked"
                /\ Len(e.issues) > 0
                /\ \A n \in 1..Len(e.issues) : e.issues[n].file = written[i - 1].file
         [] e.type = "complete" ->
                /\ i = Len(written)
                /\ Len(fileCheckedPositions) = Len(prFiles)
         [] OTHER -> FALSE

\* the file_checked events follow the file order of the PR
fileCheckedInOrder ==
    /\ Len(fileCheckedPositions) <= Len(prFiles)
    /\ \A k \in 1..Len(fileCheckedPositions) :
          written[fileCheckedPositions[k]].file = prFiles[k].filename

\* a finished stream ends with its one terminal event and the writer closed
terminatedOnce ==
    /\ Cardinality({ i \in 1..Len(written) : written[i].type \in TerminalTypes }) <= 1
    /\ streamPc = "done" =>
          /\ written # <<>>
          /\ written[Len(written)].type \in TerminalTypes
          /\ writerClosed
    /\ writerClosed => streamPc = "done"

\* what was written stays written
writtenOnlyGrows ==
    /\ Len(written') >= Len(written)
    /\ SubSeq(written', 1, Len(written)) = written

\* nothing is written once the stream has its terminal event
silentAfterTerminal ==
    (written # <<>> /\ written[Len(written)].type \in TerminalTypes) => written' = written

\* C12: the events written are, in order, init, pr_info, total_files, then for
\* each file in the PR's file order one file_checked optionally followed at
\* once by one issue_found for that file, then complete; a failure cuts the
\* sequence short and appends exactly one error event; a stream ends with
\* exactly one terminal event, nothing is written after it, and events
\* written before an error are not withdrawn
C12_EventOrder ==
    /\ [](\A i \in 1..Len(written) : eventInOrder(i))
    /\ []fileCheckedInOrder
    /\ []terminatedOnce
    /\ [][writtenOnlyGrows /\ silentAfterTerminal]_vars

\* a finished stream of three files, with a file that raised issues and a
\* file that raised none
C12_Witness ==
    /\ streamCompleted
    /\ Len(prFiles) = 3
    /\ \E k \in 1..3 : Len(eventsOfFile(k)) = 2
    /\ \E k \in 1..3 : Len(eventsOfFile(k)) = 1

-----------------------------------------------------------------------------
(* Links that are not the URL of a PR.                                     *)

\* C13: a PR link that does not match the PR URL pattern produces a terminal
\* error without any call to pulls.get or pulls.listFiles, in both paths; the
\* stream then consists of exactly one event, of type error, with no init
\* event before it
C13_InvalidLinkFailsFast ==
    prLink \in InvalidLinks =>
        /\ fetchCalls = <<>>
        /\ streamPc \in {"idle", "post", "done"}
        /\ syncPc \in {"idle", "post", "done"}
        /\ streamPc = "done" => written = << ErrorEvent("Invalid GitHub PR URL") >> /\ writerClosed
        /\ streamPc # "done" => written = <<>>
        /\ syncPc = "done" =>
              /\ syncResponse.status = 500
              /\ syncResponse.body.message = << "Failed to validate PR: ", "Invalid GitHub PR URL" >>

\* the stream of a link whose path has no repository segment has ended
C13_Witness ==
    /\ prLink = U_noRepo
    /\ streamPc = "done"
    /\ Len(written) = 1
    /\ written[1].type = "error"

-----------------------------------------------------------------------------
(* Writes to a stream the client has closed.                               *)

\* C14: if the output stream is already closed when the streaming path writes
\* an event, the validation is aborted: no further file is evaluated and no
\* further event is written after the failed write
C14_AbortOnClosedStream ==
    [][failedWrites > 0 => (fileIdx' = fileIdx /\ written' = written)]_vars

-----------------------------------------------------------------------------
(* Malformed patches.                                                      *)

L_hunkNoCounts == <<"@","@"," ","-","1"," ","+","1"," ","@","@">>
L_hunkGarbage == <<"@","@"," ","w","h","a","t"," ","@","@">>
L_testUnclosedParen == <<"+","i","t","(","'","d","o","e","s"," ","Z","'",",">>
L_closersOnly == <<"+","}",")",")","}",")">>
L_importFixtureOpen == <<"+","i","m","p","o","r","t"," ","{"," ","F","i","x","t","u","r","e","B","u","i","l","d","e","r",",">>
L_addedEmpty == <<"+">>
L_noNewline == <<"\\"," ","N","o"," ","n","e","w","l","i","n","e"," ","a","t"," ","e","n","d"," ","o","f"," ","f","i","l","e">>
L_removedBrace == <<"-"," "," ","}",")",";">>

MalformedLines ==
    { L_hunkNoCounts, L_hunkGarbage, L_testOpen, L_testUnclosedParen, L_closersOnly,
      L_importFixtureOpen, L_addedEmpty, L_noNewline, L_removedBrace, <<>> }

MaxMalformedLines == 3

MalformedInit == EngineInit({F_e2eSpec}, SeqsOf(MalformedLines, 1, MaxMalformedLines))

SpecMalformed == MalformedInit /\ [][EngineNext]_vars

CheckTypes ==
    { "assertions-framework", "assertions-no-ts", "gestures-framework",
      "fixtures-framework", "matchers-framework", "fixture-utils-framework",
      "getter-type", "test-withfixtures" }

\* issues is a list of issues of the file: each names the file, carries a
\* number or 'N/A' as its line, the cleaned text of an added line of the
\* patch as its snippet, and one of the check kinds
issueListOf(issues, f) ==
    \A n \in 1..Len(issues) :
        /\ issues[n].file = f.filename
        /\ issues[n].line.kind \in {"N/A", "number"}
        /\ issues[n].line.kind = "number" => issues[n].line.value \in Int
        /\ issues[n].checkType \in CheckTypes
        /\ \E i \in 1..Len(f.patch) :
              isAddedLine(f.patch[i]) /\ cleanOf(f.patch[i]) = issues[n].importStatement

\* C15: validateFileContent terminates and returns an issue list without
\* throwing for every filename and patch, including patches with missing or
\* malformed hunk headers, unbalanced braces or parentheses, unclosed
\* multi-line imports and test declarations on the last line of the patch
C15_ReturnsIssueList ==
    /\ streamResult.done => issueListOf(streamResult.issues, file)
    /\ syncResult.done => issueListOf(syncResult.issues, file)

\* both engines have returned on a patch whose hunk header does not match the
\* pattern, with an unclosed import and, as its last line, a test declaration
\* whose parenthesis never closes
C15_Witness ==
    /\ file.patch = << L_hunkNoCounts, L_importFixtureOpen, L_testUnclosedParen >>
    /\ streamResult.done
    /\ syncResult.done
    /\ \E n \in 1..Len(streamResult.issues) :
          streamResult.issues[n].checkType = "test-withfixtures" /\ streamResult.issues[n].line = NA

-----------------------------------------------------------------------------
(* Sibling test blocks.                                                    *)

RECURSIVE ownBlockEndFrom(_, _, _)
\* the position of the line on which the block opened at a declaration
\* closes: the first line at or after position i that brings the brace depth
\* back to zero, removed lines left out (the last line if it never closes)
ownBlockEndFrom(lines, i, depth) ==
    LET after == IF startsWith(lines[i], K_minus) THEN depth
                 ELSE depth + netDepth(lines[i], "{", "}")
    IN IF after <= 0 \/ i = Len(lines) THEN i
       ELSE ownBlockEndFrom(lines, i + 1, after)

\* the positions of the added test declarations that open a block
openingDeclarations(lines) ==
    { t \in 1..Len(lines) :
        /\ isAddedLine(lines[t])
        /\ testDeclRegexTest(cleanOf(lines[t]))
        /\ countChar(lines[t], "{") > 0 }

\* no line of the declaration's own block holds the fixture token
ownBlockWithoutFixtures(lines, t) ==
    \A i \in t..ownBlockEndFrom(lines, t, 0) : ~includes(lines[i], K_withFixtures)

\* every declaration whose own block has no fixture call is reported
SiblingBlocksKeptApart(issues) ==
    \A t \in openingDeclarations(file.patch) :
        ownBlockWithoutFixtures(file.patch, t) =>
            \E n \in 1..Len(issues) :
                /\ issues[n].checkType = "test-withfixtures"
                /\ issues[n].importStatement = cleanOf(file.patch[t])

\* C16: in a .spec.ts file every added it() declaration whose own block
\* contains no withFixtures call produces a test-withfixtures issue, even
\* when a later sibling it() block of the patch does contain such a call
C16_OwnBlockOnly ==
    /\ (streamResult.done /\ streamScansTests) => SiblingBlocksKeptApart(streamResult.issues)
    /\ (syncResult.done /\ syncScansTests) => SiblingBlocksKeptApart(syncResult.issues)

-----------------------------------------------------------------------------
(* The two copies of the engine.                                           *)

\* C17: for every filename and patch the streaming engine and the
\* non-streaming engine return the same issue list: same issues, same order,
\* same line values and check kinds
C17_EnginesAgree ==
    (streamResult.done /\ syncResult.done) => streamResult.issues = syncResult.issues

-----------------------------------------------------------------------------
(* The issues of a report, file by file.                                   *)

RECURSIVE concatFirst(_, _)
\* perFile[1] \o ... \o perFile[k]
concatFirst(perFile, k) ==
    IF k = 0 THEN <<>> ELSE concatFirst(perFile, k - 1) \o perFile[k]

\* what each engine returns for each file of the PR, taken on its own
streamAlone == [k \in 1..Len(prFiles) |-> validateFileContent(prFiles[k])]
syncAlone == [k \in 1..Len(prFiles) |-> prValidator_validateFileContent(prFiles[k])]

\* C18: the issues reported for a file depend only on that file's filename
\* and patch, whatever the other files of the PR and their order, and the
\* issues of a report are the per-file issue lists concatenated in the PR's
\* file order
C18_PerFileIssuesConcatenated ==
    /\ \A k \in 1..Len(prFiles) :
          streamProcessed(k) =>
              /\ Len(fileCheckedPositions) >= k
              /\ issuesReported(k) = streamAlone[k]
    /\ streamPc \in {"loop", "done"} => allIssues = concatFirst(streamAlone, fileIdx)
    /\ streamCompleted => streamReport.issues = concatFirst(streamAlone, Len(prFiles))
    /\ syncResponse.status = 200 => syncReport.issues = concatFirst(syncAlone, Len(prFiles))

\* a report of the streaming path on three files of which two different
\* ones raised issues
C18_Witness ==
    /\ streamCompleted
    /\ Len(prFiles) = 3
    /\ \E i, j \in 1..3 :
          /\ i < j
          /\ prFiles[i].filename # prFiles[j].filename
          /\ Len(streamAlone[i]) > 0
          /\ Len(streamAlone[j]) > 0
          /\ streamReport.issues # streamAlone[i] \o streamAlone[j]

-----------------------------------------------------------------------------
(* The order of the issues of one added line.                              *)

\* the place of each check kind in the order the rules are documented in:
\* the restricted-path import kinds, the extension kind, the nested-path
\* kind, the getter kind
documentedRank(checkType) ==
    CASE checkType \in {"assertions-framework", "gestures-framework", "matchers-framework"} -> 1
      [] checkType = "assertions-no-ts" -> 2
      [] checkType \in {"fixtures-framework", "fixture-utils-framework"} -> 3
      [] checkType = "getter-type" -> 4
      [] OTHER -> 5

\* the place of each check kind in the order validateFileContent applies the rules in
appliedRank(checkType) ==
    CASE checkType = "assertions-framework" -> 1
      [] checkType = "assertions-no-ts" -> 2
      [] checkType = "gestures-framework" -> 3
      [] checkType = "fixtures-framework" -> 4
      [] checkType = "matchers-framework" -> 5
      [] checkType = "fixture-utils-framework" -> 6
      [] checkType = "getter-type" -> 7
      [] OTHER -> 8

\* issues n and n + 1 of the list were raised by the per-line rules for the
\* same added line
sameAddedLine(issues, n) ==
    /\ issues[n].checkType # "test-withfixtures"
    /\ issues[n + 1].checkType # "test-withfixtures"
    /\ issues[n].line = issues[n + 1].line
    /\ issues[n].importStatement = issues[n + 1].importStatement

\* the issues of each added line follow the documented order
DocumentedOrder(issues) ==
    \A n \in 1..(Len(issues) - 1) :
        sameAddedLine(issues, n) =>
            documentedRank(issues[n].checkType) <= documentedRank(issues[n + 1].checkType)

\* the issues of each added line follow the order the rules are applied in
AppliedOrder(issues) ==
    \A n \in 1..(Len(issues) - 1) :
        sameAddedLine(issues, n) =>
            appliedRank(issues[n].checkType) < appliedRank(issues[n + 1].checkType)

\* C19 as stated: for one added line the issues appear with the
\* restricted-path import kinds (assertions-framework, gestures-framework,
\* matchers-framework) first, then assertions-no-ts, then
\* fixtures-framework, then getter-type
C19_DocumentedOrder ==
    /\ streamResult.done => DocumentedOrder(streamResult.issues)
    /\ syncResult.done => DocumentedOrder(syncResult.issues)

\* C19 amended: for one added line the issues appear in the order
\* assertions-framework, assertions-no-ts, gestures-framework,
\* fixtures-framework, matchers-framework, fixture-utils-framework,
\* getter-type, on every run
C19_AppliedOrder ==
    /\ streamResult.done => AppliedOrder(streamResult.issues)
    /\ syncResult.done => AppliedOrder(syncResult.issues)

\* the streaming engine has returned the issues of an added line that breaks
\* every per-line rule
C19_Witness ==
    /\ streamResult.done
    /\ file.patch = << L_hunk1, L_importEverything >>
    /\ kindsOf(streamResult.issues) =
          << "assertions-framework", "assertions-no-ts", "gestures-framework",
             "fixtures-framework", "matchers-framework", "fixture-utils-framework",
             "getter-type" >>

-----------------------------------------------------------------------------
(* Fixture imports that span several added lines.                          *)

L_importFixtureUtilsOpen == <<"+","i","m","p","o","r","t"," ","{"," ","F","i","x","t","u","r","e","U","t","i","l","s",",">>
L_importMember == <<"+"," "," ","l","o","g","i","n","T","o","A","p","p",",">>
L_closeFramework == <<"+","}"," ","f","r","o","m"," ","'",".",".","/","f","r","a","m","e","w","o","r","k","/","f","i","x","t","u","r","e","s","/","F","i","x","t","u","r","e","B","u","i","l","d","e","r","'",";">>
L_closePlain == <<"+","}"," ","f","r","o","m"," ","'",".",".","/","f","i","x","t","u","r","e","s","/","f","i","x","t","u","r","e","-","b","u","i","l","d","e","r","'",";">>
L_contextCloseFramework == <<" ","}"," ","f","r","o","m"," ","'",".",".","/","f","r","a","m","e","w","o","r","k","/","f","i","x","t","u","r","e","s","/","F","i","x","t","u","r","e","B","u","i","l","d","e","r","'",";">>
L_importFrameworkOther == <<"+","i","m","p","o","r","t"," ","U","t","i","l","i","t","i","e","s"," ","f","r","o","m"," ","'",".",".","/","f","r","a","m","e","w","o","r","k","/","U","t","i","l","i","t","i","e","s","'",";">>
L_closeFixtureHelper == <<"+"," "," ","F","i","x","t","u","r","e","H","e","l","p","e","r"," ","}"," ","f","r","o","m"," ","'",".",".","/","f","i","x","t","u","r","e","s","/","h","e","l","p","e","r","'",";">>

ImportLines ==
    { L_importFixtureOpen, L_importFixtureUtilsOpen, L_importMember, L_closeFramework,
      L_closePlain, L_contextCloseFramework, L_importFrameworkOther,
      L_closeFixtureHelper }

MaxImportLines == 3

ImportsInit == EngineInit({F_e2eTs}, SeqsOf(ImportLines, 1, MaxImportLines))

SpecImports == ImportsInit /\ [][EngineNext]_vars

\* the added line opens a fixture import it does not close: it holds
\* 'import', a restricted fixture symbol and an opening brace, and neither a
\* closing brace nor '/framework'
opensFixtureImport(cleanLine) ==
    /\ includes(cleanLine, K_import)
    /\ \E k \in 1..Len(FIXTURE_IMPORTS) : includes(cleanLine, FIXTURE_IMPORTS[k])
    /\ includes(cleanLine, <<"{">>)
    /\ ~includes(cleanLine, <<"}">>)
    /\ ~includes(cleanLine, K_framework)

\* the added lines that follow position pos up to and including the first
\* one with a closing brace (all of them when none has one)
importSpan(added, pos) ==
    LET closing == { q \in (pos + 1)..Len(added) : includes(added[q], <<"}">>) }
        last == IF closing = {} THEN Len(added)
                ELSE CHOOSE q \in closing : \A r \in closing : q <= r
    IN (pos + 1)..last

\* C20: in the streaming engine, an added line that opens a fixture import
\* without closing it and lacks '/framework' gets no fixture-utils-framework
\* issue if '/framework' appears on one of the following added lines up to
\* and including the first one with a closing brace, and exactly one such
\* issue if no added line of that span contains '/framework'
C20_MultiLineFixtureImport ==
    (streamResult.done /\ rulesRun) =>
        \A pos \in 1..Len(cleanAdded) :
            opensFixtureImport(cleanAdded[pos]) =>
                Len(issuesFor(streamResult.issues, pos, "fixture-utils-framework")) =
                    IF \E q \in importSpan(cleanAdded, pos) : includes(cleanAdded[q], K_framework)
                    THEN 0 ELSE 1

\* the streaming engine has returned on a patch with two open fixture
\* imports: the first closed by a line that names '/framework', the second
\* followed by no line at all
C20_Witness ==
    /\ streamResult.done
    /\ file.patch = << L_importFixtureOpen, L_closeFramework, L_importFixtureUtilsOpen >>
    /\ Len(issuesFor(streamResult.issues, 1, "fixture-utils-framework")) = 0
    /\ Len(issuesFor(streamResult.issues, 3, "fixture-utils-framework")) = 1

-----------------------------------------------------------------------------
(* The bounds of the multi-line import scans.                              *)

\* the added lines strictly between position pos and the first later added
\* line that holds 'import' (all later lines when none does)
beforeNextImport(added, pos) ==
    LET imports == { q \in (pos + 1)..Len(added) : includes(added[q], K_import) }
        next == IF imports = {} THEN Len(added) + 1
                ELSE CHOOSE q \in imports : \A r \in imports : q <= r
    IN (pos + 1)..(next - 1)

\* C21: the forward scan of a multi-line restricted import is bounded by the
\* next import statement: a '/framework' fragment that occurs only on a
\* later, separate import statement, reached before any closing brace, does
\* not satisfy the path requirement of the unclosed import, and the
\* violation is still emitted
C21_ScanStopsAtNextImport ==
    (streamResult.done /\ rulesRun) =>
        \A pos \in 1..Len(cleanAdded) :
            (/\ opensFixtureImport(cleanAdded[pos])
             /\ \A q \in beforeNextImport(cleanAdded, pos) :
                   /\ ~includes(cleanAdded[q], K_framework)
                   /\ ~includes(cleanAdded[q], <<"}">>)
             /\ \E q \in (pos + 1)..Len(cleanAdded) : includes(cleanAdded[q], K_import))
            => Len(issuesFor(streamResult.issues, pos, "fixture-utils-framework")) = 1

\* the added line closes a multi-line fixture import: it holds a restricted
\* fixture symbol and a closing brace, and neither 'import' nor '/framework'
closesFixtureImport(cleanLine) ==
    /\ \E k \in 1..Len(FIXTURE_IMPORTS) : includes(cleanLine, FIXTURE_IMPORTS[k])
    /\ includes(cleanLine, <<"}">>)
    /\ ~includes(cleanLine, K_import)
    /\ ~includes(cleanLine, K_framework)

\* the positions from the originating import line of the closing line at pos
\* (the nearest earlier added line that holds 'import') up to pos - 1; empty
\* when no earlier added line holds 'import'
backToImport(added, pos) ==
    LET imports == { q \in 1..(pos - 1) : includes(added[q], K_import) }
    IN IF imports = {} THEN {}
       ELSE (CHOOSE q \in imports : \A r \in imports : r <= q)..(pos - 1)

\* C22: the last line of a multi-line import (a restricted fixture symbol and
\* a closing brace, no import keyword) gets a fixture-utils-framework issue
\* when neither its originating import line nor any added line in between
\* holds '/framework', and none when one of them does
C22_BackwardScanReports ==
    (streamResult.done /\ rulesRun) =>
        \A pos \in 1..Len(cleanAdded) :
            (closesFixtureImport(cleanAdded[pos]) /\ backToImport(cleanAdded, pos) # {})
            => ( Len(issuesFor(streamResult.issues, pos, "fixture-utils-framework")) = 1
                 <=> \A q \in backToImport(cleanAdded, pos) :
                        ~includes(cleanAdded[q], K_framework) )

-----------------------------------------------------------------------------
(* Test declarations whose parentheses close on a later line.              *)

L_addedToken == <<"+"," "," ","w","i","t","h","F","i","x","t","u","r","e","s","O","p","t","i","o","n","s",",">>
L_removedToken == <<"-"," "," ","w","i","t","h","F","i","x","t","u","r","e","s","O","p","t","i","o","n","s",",">>
L_contextToken == <<" "," "," ","w","i","t","h","F","i","x","t","u","r","e","s","O","p","t","i","o","n","s",",">>

DeclarationLines ==
    { L_testUnclosedParen, L_addedToken, L_removedToken, L_contextToken,
      L_addedClose, L_addedFixtureCall, L_contextFixtureCall }

MaxDeclarationLines == 4

DeclarationsInit ==
    EngineInit({F_e2eSpec}, SeqsOf(DeclarationLines, 1, MaxDeclarationLines))

SpecDeclarations == DeclarationsInit /\ [][EngineNext]_vars

\* the line is an added or a removed line of the patch
isChangedLine(line) == startsWith(line, K_plus) \/ startsWith(line, K_minus)

\* the characters of the changed lines at positions d + 1 .. r, in order
changedText(lines, d, r) ==
    Flatten(SelectSeq(SubSeq(lines, d + 1, r), isChangedLine))

\* the parentheses the declaration at d leaves open are closed somewhere on
\* the changed lines at positions d + 1 .. r
closedThrough(lines, d, r) ==
    LET text == changedText(lines, d, r)
        open == netDepth(cleanOf(lines[d]), "(", ")")
    IN \E n \in 1..Len(text) : open + netDepth(SubSeq(text, 1, n), "(", ")") = 0

\* the span of the declaration at d: the changed lines after it, up to and
\* including the line on which its parentheses close
declarationSpan(lines, d) ==
    { q \in (d + 1)..Len(lines) :
        isChangedLine(lines[q]) /\ ~closedThrough(lines, d, q - 1) }

\* position d holds an added test declaration that leaves a parenthesis open
\* and does not hold the fixture token itself
opensDeclaration(lines, d) ==
    /\ isAddedLine(lines[d])
    /\ testDeclRegexTest(cleanOf(lines[d]))
    /\ ~includes(cleanOf(lines[d]), K_withFixtures)
    /\ netDepth(cleanOf(lines[d]), "(", ")") > 0

\* the outcome the span rule gives the declaration at d: reported when the
\* token is on no line of its span and the body scan from d finds no call
spanRuleReports(lines, d) ==
    /\ \A q \in declarationSpan(lines, d) : ~includes(lines[q], K_withFixtures)
    /\ ~bodyScan(lines, d, netDepth(cleanOf(lines[d]), "{", "}"))

\* the number of test-withfixtures issues whose snippet is the text s
reportedCount(issues, s) ==
    Cardinality({ i \in 1..Len(issues) :
                    /\ issues[i].checkType = "test-withfixtures"
                    /\ issues[i].importStatement = s })

\* C23: a test declaration whose parentheses do not close on its own line is
\* followed over the added and removed lines (context lines skipped) until
\* its parenthesis depth returns to zero; the token withFixtures on a line of
\* that span means no test-withfixtures issue for the declaration, and
\* otherwise the body scan from the declaration line decides.  Counted per
\* declaration text: the issues with that snippet are as many as the
\* declarations with that text the rule reports.
C23_DeclarationSpanDecides ==
    (streamResult.done /\ streamScansTests) =>
        \A d \in 1..Len(file.patch) :
            opensDeclaration(file.patch, d) =>
                reportedCount(streamResult.issues, cleanOf(file.patch[d]))
                  = Cardinality({ q \in 1..Len(file.patch) :
                        /\ opensDeclaration(file.patch, q)
                        /\ cleanOf(file.patch[q]) = cleanOf(file.patch[d])
                        /\ spanRuleReports(file.patch, q) })

\* the same, for patches in which no declaration text occurs twice
SpanDecidesFirstOccurrences ==
    (\A d \in 1..Len(file.patch) : indexOf(file.patch, file.patch[d]) = d)
    => C23_DeclarationSpanDecides

-----------------------------------------------------------------------------
(* The two outcomes of the block scan.                                     *)

RECURSIVE isSubsequence(_, _)
\* the sequence a is b with some elements left out
isSubsequence(a, b) ==
    IF a = <<>> THEN TRUE
    ELSE IF b = <<>> THEN FALSE
    ELSE IF Head(a) = Head(b) THEN isSubsequence(Tail(a), Tail(b))
    ELSE isSubsequence(a, Tail(b))

\* the cleaned texts of the added test declarations of the patch, in order
declaredTests(lines) ==
    LET decls == SelectSeq(lines, LAMBDA line :
                     isAddedLine(line) /\ testDeclRegexTest(cleanOf(line)))
    IN [k \in 1..Len(decls) |-> cleanOf(decls[k])]

\* the snippets of the test-withfixtures issues, in order
reportedTests(issues) ==
    [k \in 1..Len(testIssuesOf(issues)) |-> testIssuesOf(issues)[k].importStatement]

\* the number of positions of the sequence that hold x
occurrences(s, x) == Cardinality({ k \in 1..Len(s) : s[k] = x })

\* the fixture token occurs neither on the first line of the patch that
\* equals the declaration at d nor on any line after it
noTokenFrom(lines, d) ==
    \A q \in indexOf(lines, lines[d])..Len(lines) : ~includes(lines[q], K_withFixtures)

\* C24: every added test declaration of a .spec.ts file ends FOUND (no issue)
\* or CLOSED_WITHOUT_MATCH (one test-withfixtures issue whose snippet is the
\* cleaned declaration); a block still open at the end of the patch with no
\* fixture call counts as CLOSED_WITHOUT_MATCH, and no declaration yields
\* more than one issue
C24_FoundOrClosedWithoutMatch ==
    (streamResult.done /\ streamScansTests) =>
        /\ isSubsequence(reportedTests(streamResult.issues), declaredTests(file.patch))
        /\ \A d \in 1..Len(file.patch) :
              (/\ isAddedLine(file.patch[d])
               /\ testDeclRegexTest(cleanOf(file.patch[d]))
               /\ noTokenFrom(file.patch, d))
              => occurrences(reportedTests(streamResult.issues), cleanOf(file.patch[d]))
                    = occurrences(declaredTests(file.patch), cleanOf(file.patch[d]))

\* a run on a patch with a fixture call, then a declaration whose block is
\* still open at the end of the patch: the declaration is reported once
C24_Witness ==
    /\ streamResult.done /\ streamScansTests
    /\ file.patch = << L_addedFixtureCall, L_testOpen, L_context >>
    /\ reportedTests(streamResult.issues) = << cleanOf(L_testOpen) >>

-----------------------------------------------------------------------------
(* The line number of a test-withfixtures issue.                           *)

TestHunkLines ==
    { L_hunk12, L_hunkNoCounts, L_context, L_removedBrace, L_testOneLine }

MaxTestHunkLines == 4

TestHunksInit == EngineInit({F_e2eSpec}, SeqsOf(TestHunkLines, 1, MaxTestHunkLines))

SpecTestHunks == TestHunksInit /\ [][EngineNext]_vars

\* position d of the patch holds an added test declaration
isDeclarationAt(lines, d) ==
    isAddedLine(lines[d]) /\ testDeclRegexTest(cleanOf(lines[d]))

\* the positions of the declarations the streaming engine reports, in order
reportedPositions(lines) ==
    SelectSeq([d \in 1..Len(lines) |-> d], LAMBDA d :
        isDeclarationAt(lines, d) /\ testLineFlagged(lines, lines[d]))

\* the position of the nearest line at or before d that starts with '@@',
\* 0 when there is none
nearestHeader(lines, d) ==
    LET hs == { h \in 1..d : startsWith(lines[h], K_hunkMark) }
    IN IF hs = {} THEN 0 ELSE CHOOSE h \in hs : \A g \in hs : g <= h

\* the declaration at d follows a header that holds the pattern
\* @@ -a,b +c,d @@
hasWellFormedHeader(lines, d) ==
    /\ nearestHeader(lines, d) > 0
    /\ hunkHeaderRegexMatch(lines[nearestHeader(lines, d)]) # <<>>

\* c + k - 1 for the declaration at d: c the new-file start of its header and
\* k its rank among the non-removed lines after the header
newFileLine(lines, d) ==
    LET h == nearestHeader(lines, d)
        c == parseInt(hunkHeaderRegexMatch(lines[h])[1])
        k == Cardinality({ m \in (h + 1)..d : ~startsWith(lines[m], K_minus) })
    IN c + k - 1

\* C25: under a well-formed hunk header `@@ -a,b +c,d @@` the
\* test-withfixtures issue of a declaration that is the k-th non-removed line
\* after the header reports c + k - 1, the declaration's line in the new
\* file; a declaration on the first line after the header reports c
C25_NewFileLineReported ==
    (streamResult.done /\ streamScansTests) =>
        LET reported == reportedPositions(file.patch)
            issues == testIssuesOf(streamResult.issues)
        IN /\ Len(issues) = Len(reported)
           /\ \A j \in 1..Len(reported) :
                 hasWellFormedHeader(file.patch, reported[j])
                 => issues[j].line = Num(newFileLine(file.patch, reported[j]))

\* C26: a test-withfixtures issue carries 'N/A' exactly when no line starting
\* with '@@' lies at or before the declaration or the nearest such line does
\* not hold the pattern `@@ -<digits>,<digits> +<digits>,<digits> @@`; in
\* every other case it carries an integer; the issue is emitted either way
C26_UnknownExactlyWithoutHeader ==
    (streamResult.done /\ streamScansTests) =>
        LET reported == reportedPositions(file.patch)
            issues == testIssuesOf(streamResult.issues)
        IN /\ Len(issues) = Len(reported)
           /\ \A j \in 1..Len(reported) :
                 IF hasWellFormedHeader(file.patch, reported[j])
                 THEN issues[j].line.kind = "number"
                 ELSE issues[j].line = NA

\* the same, for patches in which no declaration text occurs twice
UnknownExactlyFirstOccurrences ==
    (\A d \in 1..Len(file.patch) :
        isDeclarationAt(file.patch, d) => indexOf(file.patch, file.patch[d]) = d)
    => C26_UnknownExactlyWithoutHeader

-----------------------------------------------------------------------------
(* Declarations are located by their position in the patch.                *)

\* the scan of the streaming engine started at position d itself: TRUE when
\* the declaration at d is to be reported
flaggedFrom(lines, d) ==
    LET testLineClean == cleanOf(lines[d])
        parenDepth == netDepth(testLineClean, "(", ")")
        blockDepth == netDepth(testLineClean, "{", "}")
    IN /\ ~includes(testLineClean, K_withFixtures)
       /\ ~(parenDepth > 0 /\ declarationScan(lines, d, parenDepth))
       /\ ~bodyScan(lines, d, blockDepth)

RECURSIVE ownPositionIssues(_, _, _)
\* the test-withfixtures issues due when every declaration from position d on
\* is scanned from its own line and numbered by its own line
ownPositionIssues(filename, lines, d) ==
    IF d > Len(lines) THEN <<>>
    ELSE (IF isDeclarationAt(lines, d) /\ flaggedFrom(lines, d)
          THEN << Issue(filename, testLineNumber(lines, d), cleanOf(lines[d]),
                        "test-withfixtures") >>
          ELSE <<>>)
         \o ownPositionIssues(filename, lines, d + 1)

\* C27: each added test declaration is evaluated from its own position in the
\* patch: when the same declaration text occurs on two added lines, each
\* occurrence is scanned from its own line, and an issue for an occurrence
\* carries the line number of that occurrence
C27_EvaluatedFromOwnPosition ==
    (streamResult.done /\ streamScansTests) =>
        testIssuesOf(streamResult.issues)
            = ownPositionIssues(file.filename, file.patch, 1)

-----------------------------------------------------------------------------
(* Files outside e2e/ on the streaming path.                               *)

\* the file at position k of the PR lies outside the e2e/ directory
outsideE2e(k) == k \in 1..Len(prFiles) /\ ~startsWith(prFiles[k].filename, K_e2eDir)

\* C28: on the streaming path a file whose name does not start with 'e2e/'
\* yields zero issues whatever its patch holds (no per-line issue and no
\* test-withfixtures issue, even for a .spec.ts name), and it is still
\* reported with a file_checked event and listed in checkedFiles
C28_OutsideE2eNoIssues ==
    \A k \in 1..Len(prFiles) :
        outsideE2e(k) =>
            LET name == prFiles[k].filename
            IN /\ streamProcessed(k) =>
                    /\ Len(checkedFiles) >= k /\ checkedFiles[k] = name
                    /\ Len(fileCheckedPositions) >= k
                    /\ eventsOfFile(k) = << FileCheckedEvent(name) >>
                    /\ issuesOfFile(allIssues, name) = <<>>
               /\ streamCompleted =>
                    LET data == written[Len(written)].data
                    IN /\ data.checkedFiles[k] = name
                       /\ issuesOfFile(data.issues, name) = <<>>

\* a completed stream whose PR holds a .spec.ts file outside e2e/ with an
\* import and a test the rules would report, after a file that raised issues
C28_Witness ==
    /\ streamCompleted
    /\ Len(prFiles) = 2
    /\ outsideE2e(2)
    /\ endsWith(prFiles[2].filename, K_specTs)
    /\ prFiles[2].patch = << L_importAssertions, L_testOneLine >>
    /\ Len(validateFileContent(prFiles[1])) > 0
    /\ checkedFiles[2] = prFiles[2].filename
    /\ written[Len(written) - 1] = FileCheckedEvent(prFiles[2].filename)

-----------------------------------------------------------------------------
(* The complete event against the events written before it.                *)

\* the events of one type among the written ones, in order
eventsOfType(type) == SelectSeq(written, LAMBDA event : event.type = type)

\* the issues arrays of the issue_found events, concatenated in order
streamedIssues ==
    Flatten([k \in 1..Len(eventsOfType("issue_found")) |->
                eventsOfType("issue_found")[k].issues])

\* the files of the file_checked events, in order
streamedFiles ==
    [k \in 1..Len(eventsOfType("file_checked")) |-> eventsOfType("file_checked")[k].file]

\* every issue_found event comes right after the file_checked event of the
\* file its issues name
issueFoundAfterFileChecked ==
    \A j \in 1..Len(written) :
        written[j].type = "issue_found" =>
            /\ j > 1
            /\ written[j - 1].type = "file_checked"
            /\ written[j].issues # <<>>
            /\ \A i \in 1..Len(written[j].issues) :
                  written[j].issues[i].file = written[j - 1].file

\* C29: when complete is emitted its data.issues is the concatenation, in
\* order, of the issues arrays of the issue_found events written so far, its
\* data.checkedFiles is the sequence of files of the file_checked events, its
\* data.filesChecked is the count of the total_files event and the number of
\* file_checked events, and the file_checked event of a file precedes the
\* issue_found event that carries that file's issues
C29_CompleteSumsTheStream ==
    /\ issueFoundAfterFileChecked
    /\ streamCompleted =>
          LET data == written[Len(written)].data
          IN /\ data.issues = streamedIssues
             /\ data.checkedFiles = streamedFiles
             /\ Len(eventsOfType("total_files")) = 1
             /\ data.filesChecked = eventsOfType("total_files")[1].count
             /\ data.filesChecked = Len(eventsOfType("file_checked"))

\* a completed stream of three files, two of which raised issues
C29_Witness ==
    /\ streamCompleted
    /\ Len(eventsOfType("file_checked")) = 3
    /\ Len(eventsOfType("issue_found")) = 2
    /\ Len(written[Len(written)].data.issues) > Len(eventsOfType("issue_found")[1].issues)

-----------------------------------------------------------------------------
(* The client's stream reader: handleStreamValidation.                     *)
(*                                                                         *)
(* The response body is modelled as the characters of the text the server  *)
(* encoded (the events are ASCII text, one byte per character), handed to  *)
(* the reader in chunks of any length.                                     *)

K_newline == <<"\n">>

RECURSIVE decimal(_)
\* the decimal digits of a natural number
decimal(n) ==
    IF n < 10 THEN << DigitSeq[n + 1] >>
    ELSE decimal(n \div 10) \o << DigitSeq[(n % 10) + 1] >>

\* JSON.stringify of a string given by its characters
jsonString(s) ==
    <<"\"">>
    \o Flatten([k \in 1..Len(s) |->
                   IF s[k] = "\"" THEN <<"\\", "\"">>
                   ELSE IF s[k] = "\\" THEN <<"\\", "\\">>
                   ELSE << s[k] >>])
    \o <<"\"">>

\* the characters of the message of an init event
messageText(message) ==
    IF message = "Starting PR validation..."
    THEN <<"S","t","a","r","t","i","n","g"," ","P","R"," ","v","a","l","i","d","a","t","i","o","n",".",".",".">>
    ELSE <<>>

\* JSON.stringify of an init, total_files or file_checked event
JSON_stringify(event) ==
    IF event.type = "init"
    THEN <<"{","\"","t","y","p","e","\"",":","\"","i","n","i","t","\"",",","\"","m","e","s","s","a","g","e","\"",":">> \o jsonString(messageText(event.message)) \o <<"}">>
    ELSE IF event.type = "total_files"
    THEN <<"{","\"","t","y","p","e","\"",":","\"","t","o","t","a","l","_","f","i","l","e","s","\"",",","\"","c","o","u","n","t","\"",":">> \o decimal(event.count) \o <<"}">>
    ELSE <<"{","\"","t","y","p","e","\"",":","\"","f","i","l","e","_","c","h","e","c","k","e","d","\"",",","\"","f","i","l","e","\"",":">> \o jsonString(event.file) \o <<"}">>

\* the events whose text the reader is given
WireEvents == { InitEvent, TotalFilesEvent(12), FileCheckedEvent(F_e2eTs) }

\* JSON.parse of a line inside the try block: the event, or nothing when
\* JSON.parse throws and the catch block logs the line
JSON_parse(line) ==
    LET hits == { event \in WireEvents : JSON_stringify(event) = trim(line) }
    IN IF hits = {} THEN <<>> ELSE << CHOOSE event \in hits : TRUE >>

\* what the writes of the server put on the wire for a sequence of events:
\* JSON.stringify(event) + '\n' for each
encodeEvents(events) ==
    Flatten([k \in 1..Len(events) |-> JSON_stringify(events[k]) \o K_newline])

RECURSIVE split(_)
\* buffer.split('\n')
split(s) ==
    LET breaks == { i \in 1..Len(s) : s[i] = "\n" }
    IN IF breaks = {} THEN << s >>
       ELSE LET i == CHOOSE b \in breaks : \A c \in breaks : b <= c
            IN << SubSeq(s, 1, i - 1) >> \o split(SubSeq(s, i + 1, Len(s)))

\* a reader that keeps nothing of the last, incomplete line
lastLine_discarded(lines) == <<>>

\* lines.pop() || '': the last line, kept in the buffer
lastLine(lines) == lines[Len(lines)]

\* the for loop over the complete lines: the events handed to
\* processStreamEvent
processLines(lines) ==
    Flatten([k \in 1..Len(lines) |->
                IF trim(lines[k]) = <<>> THEN <<>> ELSE JSON_parse(lines[k])])

\* one turn of the while loop: reader.read() resolves with a chunk
ReaderRead ==
    /\ readerPc = "reading"
    /\ delivered < Len(wire)
    /\ \E n \in 1..(Len(wire) - delivered) :
          LET value == SubSeq(wire, delivered + 1, delivered + n)
              lines == split(buffer \o value)
          IN /\ buffer' = lastLine(lines)
             /\ processed' = processed \o processLines(SubSeq(lines, 1, Len(lines) - 1))
             /\ delivered' = delivered + n
    /\ UNCHANGED <<wire, readerPc, engineVars, requestVars, streamVars, syncVars,
                   transportVars>>

\* reader.read() resolves with done: the loop ends and what is left in the
\* buffer is processed
ReaderDone ==
    /\ readerPc = "reading"
    /\ delivered = Len(wire)
    /\ processed' = processed \o (IF trim(buffer) # <<>> THEN JSON_parse(buffer) ELSE <<>>)
    /\ readerPc' = "done"
    /\ UNCHANGED <<wire, delivered, buffer, engineVars, requestVars, streamVars,
                   syncVars, transportVars>>

ReaderNext == ReaderRead \/ ReaderDone

MaxWireEvents == 2

\* the server has written its events and closed the writer; the wire holds
\* their text, with or without the newline after the last event
ReaderInit ==
    /\ file = NoFile
    /\ streamResult = NotRun
    /\ syncResult = NotRun
    /\ prLink = <<>>
    /\ prFiles = <<>>
    /\ streamPc = "done"
    /\ fileIdx = 0
    /\ allIssues = <<>>
    /\ checkedFiles = <<>>
    /\ written \in SeqsOf(WireEvents, 0, MaxWireEvents)
    /\ writerClosed = TRUE
    /\ syncPc = "idle"
    /\ syncResponse = [status |-> 0]
    /\ fetchCalls = <<>>
    /\ clientGone = FALSE
    /\ failedWrites = 0
    /\ wire \in { encodeEvents(written),
                  SubSeq(encodeEvents(written), 1, Len(encodeEvents(written)) - 1) }
    /\ delivered = 0
    /\ buffer = <<>>
    /\ processed = <<>>
    /\ readerPc = "reading"

SpecReader == ReaderInit /\ [][ReaderNext]_vars

\* how many events of the wire lie, newline included, in its first n characters
eventsWithin(n) == Cardinality({ i \in 1..n : wire[i] = "\n" })

\* C30: the reader hands to processStreamEvent exactly the newline-delimited
\* JSON events the server wrote, each once and in the order written, however
\* the stream is split into chunks: while it reads, the events whose newline
\* has arrived; when it is done, all of them, the last one also when no
\* newline follows it
C30_EveryEventOnceInOrder ==
    /\ readerPc = "reading" => processed = SubSeq(written, 1, eventsWithin(delivered))
    /\ readerPc = "done" => processed = written

\* the reader is done with two events, the second without a newline after it
C30_Witness ==
    /\ readerPc = "done"
    /\ Len(written) = 2
    /\ wire[Len(wire)] # "\n"
    /\ buffer = JSON_stringify(written[2])
    /\ processed = written

=============================================================================
